---- MODULE Spec2Model ----
(***************************************************************************)
(* zvault terminal front-end: the root Bubble Tea model, its eight         *)
(* sub-models, the vault store they call and the commands (navigation,     *)
(* vault open, clipboard write, timers) they leave in flight.              *)
(*                                                                         *)
(* A text value is a sequence of one-character strings.  An optional time  *)
(* (a Go *time.Time) is 0 for nil and a positive number otherwise.  Every  *)
(* handler is an operator from (sub-model, message, world, environment) to *)
(* the new sub-model, the new world and the commands it returns, as the Go *)
(* Update methods are.                                                     *)
(***************************************************************************)
EXTENDS Integers, Sequences, FiniteSets, Bags, TLC

VARIABLES
    m,          \* the root Model (src/unnamed/part_013 Model)
    world,      \* the vault's contents: secrets, tasks, the next fresh id
    vaultPw,    \* the password of the vault on disk; <<"-">> while no vault exists
    handles,    \* number of *vault.Vault handles handed out so far
    inflight,   \* bag of commands and messages not yet processed
    clearq,     \* number of armed clipboard-clear timers
    clipboard,  \* the system clipboard's content
    clip,       \* counts of clipboard calls: copies requested, clears invoked
    quit,       \* the program has ended (tea.Quit was processed)
    last,       \* the message the event loop processed last, with its commands
    trail       \* filter states visited by successive filter advances, per list

vars == <<m, world, vaultPw, handles, inflight, clearq, clipboard, clip, quit,
          last, trail>>

----------------------------------------------------------------------------
(* Bounds of the model *)

MaxText == 1
MaxInflight == 1
MaxIds == 4
MaxHandles == 1
MaxCopies == 2
MaxTrail == 9

----------------------------------------------------------------------------
(* Keys.  The zstyle bindings are those the footer documents. *)

KeyQuit == {"q", "ctrl+c"}
KeyUp == {"up", "k"}
KeyDown == {"down", "j"}
KeyEnter == {"enter"}
KeyBack == {"esc"}
KeyTab == {"tab"}
KeyFilter == {"/"}

SpecialKeys == {"enter", "tab", "shift+tab", "esc", "up", "down", "left", "right",
                "backspace", "ctrl+c", "ctrl+s"}

IsRune(k) == k \notin SpecialKeys

KeyMsg(k) == [type |-> "key", key |-> k]

----------------------------------------------------------------------------
(* Text *)

NoText == <<>>

Max(a, b) == IF a >= b THEN a ELSE b

Min(a, b) == IF a <= b THEN a ELSE b

RECURSIVE TrimLeft(_)
TrimLeft(s) == IF s # <<>> /\ Head(s) = " " THEN TrimLeft(Tail(s)) ELSE s

RECURSIVE TrimRight(_)
TrimRight(s) ==
    IF s # <<>> /\ s[Len(s)] = " " THEN TrimRight(SubSeq(s, 1, Len(s) - 1)) ELSE s

TrimSpace(s) == TrimRight(TrimLeft(s))

\* strings.Split(s, ","): the pieces between commas, empty pieces kept
RECURSIVE SplitComma(_, _)
SplitComma(s, cur) ==
    IF s = <<>> THEN <<cur>>
    ELSE IF Head(s) = "," THEN <<cur>> \o SplitComma(Tail(s), <<>>)
    ELSE SplitComma(Tail(s), Append(cur, Head(s)))

RECURSIVE TrimAll(_)
TrimAll(ps) ==
    IF ps = <<>> THEN <<>>
    ELSE LET t == TrimSpace(Head(ps))
         IN (IF t = <<>> THEN <<>> ELSE <<t>>) \o TrimAll(Tail(ps))

\* the tag parsing of both forms: split on commas, trim, drop empties
parseTags(raw) ==
    IF TrimSpace(raw) = <<>> THEN <<>> ELSE TrimAll(SplitComma(TrimSpace(raw), <<>>))

\* strings.Join(tags, ", ")
RECURSIVE JoinTags(_)
JoinTags(ts) ==
    IF ts = <<>> THEN <<>>
    ELSE IF Len(ts) = 1 THEN ts[1]
    ELSE ts[1] \o <<",", " ">> \o JoinTags(Tail(ts))

\* textinput.Model.Update for a key message on a focused input: a rune is
\* appended, backspace removes the last character, other keys change nothing
textinput_Update(val, k) ==
    IF k = "backspace" THEN (IF val = <<>> THEN val ELSE SubSeq(val, 1, Len(val) - 1))
    ELSE IF IsRune(k) THEN Append(val, k)
    ELSE val

RangeOf(s) == {s[i] : i \in 1..Len(s)}

\* lexicographic order on texts, as sort.Strings orders Go strings
CharRank(c) ==
    CASE c = " " -> 0 [] c = "+" -> 1 [] c = "," -> 2 [] c = "/" -> 3
      [] c = "a" -> 10 [] c = "b" -> 11 [] c = "c" -> 12 [] c = "d" -> 13
      [] c = "e" -> 14 [] c = "g" -> 15 [] c = "j" -> 16 [] c = "k" -> 17
      [] c = "n" -> 18 [] c = "q" -> 19 [] c = "s" -> 20 [] c = "x" -> 21
      [] c = "y" -> 22 [] OTHER -> 30

RECURSIVE TextLess(_, _)
TextLess(a, b) ==
    IF b = <<>> THEN FALSE
    ELSE IF a = <<>> THEN TRUE
    ELSE IF CharRank(Head(a)) # CharRank(Head(b)) THEN CharRank(Head(a)) < CharRank(Head(b))
    ELSE TextLess(Tail(a), Tail(b))

----------------------------------------------------------------------------
(* Records of the vault *)

NoTime == 0

SecretTypes == {"password", "apikey", "sshkey", "note"}

\* Secret.field: a missing key of the field map reads as the empty string
field(s, key) == IF key \in DOMAIN s.fields THEN s.fields[key] ELSE NoText

TOTPSecret(s) == field(s, "totp_secret")

\* string(sec.Type) as a text
TypeText(t) ==
    CASE t = "password" -> <<"p", "a", "s", "s", "w", "o", "r", "d">>
      [] t = "apikey" -> <<"a", "p", "i", "k", "e", "y">>
      [] t = "sshkey" -> <<"s", "s", "h", "k", "e", "y">>
      [] t = "note" -> <<"n", "o", "t", "e">>
      [] OTHER -> <<>>

LowerChar(c) == CASE c = "Y" -> "y" [] c = "N" -> "n" [] c = "A" -> "a" [] OTHER -> c

ToLower(s) == [i \in 1..Len(s) |-> LowerChar(s[i])]

\* strings.Contains
Contains(s, sub) ==
    \E i \in 0..(Len(s) - Len(sub)) : SubSeq(s, i + 1, i + Len(sub)) = sub

\* task.Filter; the zero value matches everything
NoFilter == [status |-> "", priority |-> "", tag |-> NoText]

PriorityNone == ""

Priorities == <<"", "low", "medium", "high">>

----------------------------------------------------------------------------
(* The vault's stores.  A collection lists its records in a fixed order:   *)
(* a Put of a known id replaces the record in place, a Put of a new id     *)
(* appends it.                                                             *)

IndexOfId(recs, id) ==
    IF \E i \in 1..Len(recs) : recs[i].id = id
    THEN CHOOSE i \in 1..Len(recs) : recs[i].id = id
    ELSE 0

HasId(recs, id) == IndexOfId(recs, id) # 0

colPut(recs, rec) ==
    IF HasId(recs, rec.id)
    THEN [recs EXCEPT ![IndexOfId(recs, rec.id)] = rec]
    ELSE Append(recs, rec)

colDelete(recs, id) == SelectSeq(recs, LAMBDA r : r.id # id)

colGet(recs, id) == recs[IndexOfId(recs, id)]

\* vault.matches
matches(sec, query) ==
    \/ Contains(ToLower(sec.name), query)
    \/ \E i \in 1..Len(sec.tags) : sec.tags[i] = query
    \/ TypeText(sec.type) = query

\* SecretStore.Search
SecretStore_Search(secs, query) ==
    SelectSeq(secs, LAMBDA s : matches(s, ToLower(query)))

\* SecretStore.Update: overwrites the record, setting UpdatedAt
SecretStore_Update(secs, sec, now) == colPut(secs, [sec EXCEPT !.updated = now])

\* vault.matchesFilter
matchesFilter(tk, f) ==
    /\ ~(f.status = "pending" /\ tk.done)
    /\ ~(f.status = "done" /\ ~tk.done)
    /\ ~(f.priority # PriorityNone /\ tk.priority # f.priority)
    /\ ~(f.tag # NoText /\ ~\E i \in 1..Len(tk.tags) : tk.tags[i] = f.tag)

\* TaskStore.List
TaskStore_List(tks, f) == SelectSeq(tks, LAMBDA t : matchesFilter(t, f))

DoneTasks(tks) == SelectSeq(tks, LAMBDA t : t.done)

\* TaskStore.ClearDone that deletes the first n done tasks (all of them when
\* no delete fails)
RECURSIVE ClearFirstDone(_, _)
ClearFirstDone(tks, n) ==
    IF tks = <<>> THEN <<>>
    ELSE IF Head(tks).done /\ n > 0 THEN ClearFirstDone(Tail(tks), n - 1)
    ELSE <<Head(tks)>> \o ClearFirstDone(Tail(tks), n)

TaskStore_ClearDone(tks) == ClearFirstDone(tks, Len(DoneTasks(tks)))

\* The outcome of the store calls of one Update: at most one call site of
\* the handler fails.  "part" is the number of deletes a failing ClearDone
\* completed before the failure; "now" is the clock reading.
FailSites == {"none", "get", "list", "count", "tags", "write"}

Fails(env, site) == env.fail = site

----------------------------------------------------------------------------
(* Messages and commands *)

Views == {"password", "menu", "secretList", "secretDetail", "secretForm",
          "taskList", "taskDetail", "taskForm"}

NilVault == 0

NoData == [kind |-> "nil"]

IdData(id) == [kind |-> "id", id |-> id]

TaskData(t) == [kind |-> "task", task |-> t]

navigateMsg(view, data) == [type |-> "navigate", view |-> view, data |-> data]

errMsg(e) == [type |-> "err", err |-> e]

vaultOpenedMsg(h) == [type |-> "vaultOpened", vault |-> h]

clipboardCopiedMsg(f) == [type |-> "clipboardCopied", field |-> f]

clipboardClearedMsg == [type |-> "clipboardCleared"]

totpTickMsg == [type |-> "totpTick"]

\* a command whose function only returns a message
MsgCmd(msg) == [cmd |-> "msg", msg |-> msg]

QuitCmd == [cmd |-> "quit"]

\* the result of a handler: the new sub-model, the new world, the commands
Res(s, w, cmds) == [s |-> s, w |-> w, cmds |-> cmds]

\* a variant in which every view's parent is the menu
parentView_Flat(id) == "menu"

\* parentView
parentView(id) ==
    CASE id \in {"secretList", "taskList"} -> "menu"
      [] id \in {"secretDetail", "secretForm"} -> "secretList"
      [] id \in {"taskDetail", "taskForm"} -> "taskList"
      [] OTHER -> "menu"

----------------------------------------------------------------------------
(* Unlock view: passwordModel *)

newPasswordModel(firstRun) ==
    [password |-> NoText, confirm |-> NoText, focused |-> "password",
     firstRun |-> firstRun, err |-> ""]

passwordModel_nextField(p) ==
    IF p.focused = "password" THEN [p EXCEPT !.focused = "confirm"]
    ELSE [p EXCEPT !.focused = "password"]

openVaultCmd(pw) == [cmd |-> "openVault", pw |-> pw]

\* a variant that opens the vault without comparing the confirmation
passwordModel_submit_Unconfirmed(p) ==
    IF p.password = NoText
    THEN [s |-> [p EXCEPT !.err = "password cannot be empty"], cmds |-> <<>>]
    ELSE IF p.firstRun /\ p.focused = "password"
    THEN [s |-> passwordModel_nextField(p), cmds |-> <<>>]
    ELSE [s |-> p, cmds |-> <<openVaultCmd(p.password)>>]

\* a variant that keeps the confirmation after a mismatch
passwordModel_submit_KeepConfirm(p) ==
    IF p.password = NoText
    THEN [s |-> [p EXCEPT !.err = "password cannot be empty"], cmds |-> <<>>]
    ELSE IF p.firstRun /\ p.focused = "password"
    THEN [s |-> passwordModel_nextField(p), cmds |-> <<>>]
    ELSE IF p.firstRun /\ p.password # p.confirm
    THEN [s |-> [p EXCEPT !.err = "passwords do not match"], cmds |-> <<>>]
    ELSE [s |-> p, cmds |-> <<openVaultCmd(p.password)>>]

passwordModel_submit(p) ==
    IF p.password = NoText
    THEN [s |-> [p EXCEPT !.err = "password cannot be empty"], cmds |-> <<>>]
    ELSE IF p.firstRun /\ p.focused = "password"
    THEN [s |-> passwordModel_nextField(p), cmds |-> <<>>]
    ELSE IF p.firstRun /\ p.password # p.confirm
    THEN [s |-> [p EXCEPT !.err = "passwords do not match", !.confirm = NoText],
          cmds |-> <<>>]
    ELSE [s |-> p, cmds |-> <<openVaultCmd(p.password)>>]

passwordModel_updateInputs(p, msg) ==
    IF msg.type # "key" THEN p
    ELSE IF p.focused = "password"
    THEN [p EXCEPT !.password = textinput_Update(p.password, msg.key)]
    ELSE [p EXCEPT !.confirm = textinput_Update(p.confirm, msg.key)]

passwordModel_Update(p, msg) ==
    IF msg.type = "key"
    THEN LET p1 == [p EXCEPT !.err = ""]
         IN IF msg.key \in KeyEnter THEN passwordModel_submit(p1)
            ELSE IF msg.key \in KeyTab /\ p1.firstRun
            THEN [s |-> passwordModel_nextField(p1), cmds |-> <<>>]
            ELSE [s |-> passwordModel_updateInputs(p1, msg), cmds |-> <<>>]
    ELSE IF msg.type = "err"
    THEN [s |-> [p EXCEPT !.err = msg.err], cmds |-> <<>>]
    ELSE [s |-> passwordModel_updateInputs(p, msg), cmds |-> <<>>]

----------------------------------------------------------------------------
(* Menu view: menuModel *)

menuItemCount == 2

newMenuModel == [cursor |-> 0, secretCount |-> 0, pendingCount |-> 0]

pendingFilter == [NoFilter EXCEPT !.status = "pending"]

menuModel_refreshCounts(mn, v, w, env) ==
    IF v = NilVault THEN mn
    ELSE LET m1 == IF Fails(env, "list") THEN mn
                   ELSE [mn EXCEPT !.secretCount = Len(w.secrets)]
         IN IF Fails(env, "count") THEN m1
            ELSE [m1 EXCEPT !.pendingCount = Len(TaskStore_List(w.tasks, pendingFilter))]

menuModel_selectItem(mn) ==
    IF mn.cursor = 0 THEN <<MsgCmd(navigateMsg("secretList", NoData))>>
    ELSE <<MsgCmd(navigateMsg("taskList", NoData))>>

menuModel_Update(mn, msg) ==
    IF msg.type # "key" THEN [s |-> mn, cmds |-> <<>>]
    ELSE IF msg.key \in KeyUp
    THEN [s |-> IF mn.cursor > 0 THEN [mn EXCEPT !.cursor = @ - 1] ELSE mn, cmds |-> <<>>]
    ELSE IF msg.key \in KeyDown
    THEN [s |-> IF mn.cursor < menuItemCount - 1 THEN [mn EXCEPT !.cursor = @ + 1] ELSE mn,
          cmds |-> <<>>]
    ELSE IF msg.key \in KeyEnter
    THEN [s |-> mn, cmds |-> menuModel_selectItem(mn)]
    ELSE [s |-> mn, cmds |-> <<>>]

----------------------------------------------------------------------------
(* Tags of a record set, as both collectTags compute them *)

TagSetOf(recs) == UNION {RangeOf(recs[i].tags) : i \in 1..Len(recs)}

\* sort.Strings
RECURSIVE SortTexts(_)
SortTexts(S) ==
    IF S = {} THEN <<>>
    ELSE LET mn == CHOOSE x \in S : \A y \in S \ {x} : TextLess(x, y)
         IN <<mn>> \o SortTexts(S \ {mn})

collectTags(recs) == SortTexts(TagSetOf(recs))

HasTag(rec, tag) == \E i \in 1..Len(rec.tags) : rec.tags[i] = tag

\* a run-time panic ends the program: the world records it
Panic(w, cond) == IF cond THEN [w EXCEPT !.panic = TRUE] ELSE w

----------------------------------------------------------------------------
(* Secret list view: secretListModel *)

filterAll == 0
filterPassword == 1
filterAPIKey == 2
filterSSHKey == 3
filterNote == 4
filterByTag == 5
filterCount == 6

\* typeFilter.secretType
secretType(f) ==
    CASE f = filterPassword -> "password"
      [] f = filterAPIKey -> "apikey"
      [] f = filterSSHKey -> "sshkey"
      [] f = filterNote -> "note"
      [] OTHER -> ""

newSecretList ==
    [vault |-> NilVault, secrets |-> <<>>, cursor |-> 0, filter |-> filterAll,
     tags |-> <<>>, tagIndex |-> 0, searching |-> FALSE, search |-> NoText,
     confirmDelete |-> FALSE, status |-> "", err |-> ""]

\* the records the store call of loadSecrets returns
secretListModel_fetch(sl, w) ==
    IF sl.searching /\ sl.search # NoText
    THEN SecretStore_Search(w.secrets, sl.search)
    ELSE w.secrets

\* loadSecrets indexes m.tags[m.tagIndex] without a bounds check
secretListModel_loadPanics(sl, w, env) ==
    /\ sl.vault # NilVault
    /\ ~Fails(env, "list")
    /\ sl.filter = filterByTag
    /\ LET tags == collectTags(secretListModel_fetch(sl, w))
       IN Len(tags) > 0 /\ sl.tagIndex >= Len(tags)

secretListModel_clamp(sl) ==
    IF sl.cursor >= Len(sl.secrets)
    THEN [sl EXCEPT !.cursor = Max(0, Len(sl.secrets) - 1)]
    ELSE sl

secretListModel_loadSecrets(sl, w, env) ==
    IF sl.vault = NilVault THEN [sl EXCEPT !.secrets = <<>>]
    ELSE IF Fails(env, "list")
    THEN [sl EXCEPT !.secrets = <<>>, !.err = "load secrets"]
    ELSE IF secretListModel_loadPanics(sl, w, env) THEN sl
    ELSE LET all == secretListModel_fetch(sl, w)
             tags == collectTags(all)
             typed == IF sl.filter # filterAll /\ sl.filter # filterByTag
                      THEN SelectSeq(all, LAMBDA s : s.type = secretType(sl.filter))
                      ELSE all
             tagged == IF sl.filter = filterByTag /\ Len(tags) > 0
                       THEN SelectSeq(typed, LAMBDA s : HasTag(s, tags[sl.tagIndex + 1]))
                       ELSE typed
         IN secretListModel_clamp([sl EXCEPT !.err = "", !.tags = tags, !.secrets = tagged])

secretListModel_advanceFilter(sl) ==
    IF sl.filter = filterByTag
    THEN IF sl.tagIndex + 1 >= Len(sl.tags)
         THEN [sl EXCEPT !.tagIndex = 0, !.filter = filterAll]
         ELSE [sl EXCEPT !.tagIndex = @ + 1]
    ELSE LET next0 == (sl.filter + 1) % filterCount
             next == IF next0 = filterByTag /\ Len(sl.tags) = 0 THEN filterAll ELSE next0
         IN IF next = filterByTag
            THEN [sl EXCEPT !.tagIndex = 0, !.filter = next]
            ELSE [sl EXCEPT !.filter = next]

secretListModel_handleDeleteConfirm(sl, msg, w, env) ==
    IF msg.key \in {"y", "Y"}
    THEN IF sl.cursor < Len(sl.secrets)
         THEN LET s == sl.secrets[sl.cursor + 1]
              IN IF sl.vault # NilVault /\ Fails(env, "write")
                 THEN Res([sl EXCEPT !.confirmDelete = FALSE], w,
                          <<MsgCmd(errMsg("delete secret"))>>)
                 ELSE LET w1 == IF sl.vault # NilVault
                                THEN [w EXCEPT !.secrets = colDelete(@, s.id)]
                                ELSE w
                          s1 == [sl EXCEPT !.status = "deleted", !.confirmDelete = FALSE]
                      IN Res(secretListModel_loadSecrets(s1, w1, env),
                             Panic(w1, secretListModel_loadPanics(s1, w1, env)), <<>>)
         ELSE Res(sl, w, <<>>)
    ELSE IF msg.key \in {"n", "N", "esc"}
    THEN Res([sl EXCEPT !.confirmDelete = FALSE], w, <<>>)
    ELSE Res(sl, w, <<>>)

secretListModel_handleSearchInput(sl, msg, w, env) ==
    IF msg.key \in KeyBack
    THEN LET s1 == [sl EXCEPT !.searching = FALSE, !.search = NoText]
         IN Res(secretListModel_loadSecrets(s1, w, env),
                Panic(w, secretListModel_loadPanics(s1, w, env)), <<>>)
    ELSE IF msg.key \in KeyEnter
    THEN Res([sl EXCEPT !.searching = FALSE], w, <<>>)
    ELSE LET s1 == [sl EXCEPT !.search = textinput_Update(@, msg.key)]
         IN Res(secretListModel_loadSecrets(s1, w, env),
                Panic(w, secretListModel_loadPanics(s1, w, env)), <<>>)

secretListModel_handleNormalKeys(sl, msg, w, env) ==
    IF msg.key \in KeyUp
    THEN Res(IF sl.cursor > 0 THEN [sl EXCEPT !.cursor = @ - 1] ELSE sl, w, <<>>)
    ELSE IF msg.key \in KeyDown
    THEN Res(IF sl.cursor < Len(sl.secrets) - 1 THEN [sl EXCEPT !.cursor = @ + 1] ELSE sl,
             w, <<>>)
    ELSE IF msg.key \in KeyEnter
    THEN IF sl.cursor < Len(sl.secrets)
         THEN Res(sl, w, <<MsgCmd(navigateMsg("secretDetail",
                                              IdData(sl.secrets[sl.cursor + 1].id)))>>)
         ELSE Res(sl, w, <<>>)
    ELSE IF msg.key \in KeyBack
    THEN Res(sl, w, <<MsgCmd(navigateMsg(parentView("secretList"), NoData))>>)
    ELSE IF msg.key \in KeyFilter
    THEN Res([sl EXCEPT !.searching = TRUE, !.status = ""], w, <<>>)
    ELSE IF msg.key = "tab"
    THEN LET s1 == [secretListModel_advanceFilter(sl) EXCEPT !.status = ""]
         IN Res(secretListModel_loadSecrets(s1, w, env),
                Panic(w, secretListModel_loadPanics(s1, w, env)), <<>>)
    ELSE IF msg.key = "n"
    THEN Res(sl, w, <<MsgCmd(navigateMsg("secretForm", NoData))>>)
    ELSE IF msg.key = "d"
    THEN IF Len(sl.secrets) > 0 /\ sl.cursor < Len(sl.secrets)
         THEN Res([sl EXCEPT !.confirmDelete = TRUE, !.status = ""], w, <<>>)
         ELSE Res(sl, w, <<>>)
    ELSE Res(sl, w, <<>>)

secretListModel_Update(sl, msg, w, env) ==
    IF msg.type = "navigate"
    THEN IF msg.view = "secretList"
         THEN LET s1 == [sl EXCEPT !.confirmDelete = FALSE, !.status = ""]
              IN Res(secretListModel_loadSecrets(s1, w, env),
                     Panic(w, secretListModel_loadPanics(s1, w, env)), <<>>)
         ELSE Res(sl, w, <<>>)
    ELSE IF msg.type = "key"
    THEN IF sl.confirmDelete THEN secretListModel_handleDeleteConfirm(sl, msg, w, env)
         ELSE IF sl.searching THEN secretListModel_handleSearchInput(sl, msg, w, env)
         ELSE secretListModel_handleNormalKeys(sl, msg, w, env)
    ELSE Res(sl, w, <<>>)

\* secretListModel.View indexes m.tags[m.tagIndex] when the tag filter is active
secretListModel_ViewPanics(sl) ==
    sl.filter = filterByTag /\ Len(sl.tags) > 0 /\ sl.tagIndex >= Len(sl.tags)

----------------------------------------------------------------------------
(* Task list view: taskListModel *)

taskFilterAll == 0
taskFilterPending == 1
taskFilterDone == 2
taskFilterByTag == 3
taskFilterCount == 4

priorityRank(p) ==
    CASE p = "high" -> 3
      [] p = "medium" -> 2
      [] p = "low" -> 1
      [] OTHER -> 0

\* a variant that orders pending tasks by due date alone
taskLess_ByDue(a, b) ==
    IF a.done # b.done THEN ~a.done
    ELSE IF a.due # NoTime /\ b.due # NoTime /\ a.due # b.due THEN a.due < b.due
    ELSE IF a.due # NoTime /\ b.due = NoTime THEN TRUE
    ELSE FALSE

\* the less function sortTasks hands to sort.SliceStable
taskLess(a, b) ==
    IF a.done # b.done THEN ~a.done
    ELSE IF priorityRank(a.priority) # priorityRank(b.priority)
    THEN priorityRank(a.priority) > priorityRank(b.priority)
    ELSE IF a.due # NoTime /\ b.due # NoTime /\ a.due # b.due THEN a.due < b.due
    ELSE IF a.due # NoTime /\ b.due = NoTime THEN TRUE
    ELSE FALSE

\* stable insertion of t into a sorted sequence: after every element that is
\* not greater than t
RECURSIVE insertTask(_, _)
insertTask(sorted, t) ==
    IF sorted = <<>> THEN <<t>>
    ELSE IF taskLess(t, Head(sorted)) THEN <<t>> \o sorted
    ELSE <<Head(sorted)>> \o insertTask(Tail(sorted), t)

\* sort.SliceStable under taskLess
RECURSIVE sortTasks(_)
sortTasks(tks) ==
    IF tks = <<>> THEN <<>>
    ELSE insertTask(sortTasks(SubSeq(tks, 1, Len(tks) - 1)), tks[Len(tks)])

newTaskListModel ==
    [vault |-> NilVault, tasks |-> <<>>, cursor |-> 0, filter |-> taskFilterAll,
     tags |-> <<>>, tagIndex |-> 0, confirm |-> "none", doneCount |-> 0]

\* taskFilter indexes m.tags[m.tagIndex] without a bounds check
taskListModel_filterPanics(tl) ==
    tl.filter = taskFilterByTag /\ Len(tl.tags) > 0 /\ tl.tagIndex >= Len(tl.tags)

taskListModel_taskFilter(tl) ==
    CASE tl.filter = taskFilterPending -> [NoFilter EXCEPT !.status = "pending"]
      [] tl.filter = taskFilterDone -> [NoFilter EXCEPT !.status = "done"]
      [] tl.filter = taskFilterByTag /\ Len(tl.tags) > 0 ->
             [NoFilter EXCEPT !.tag = tl.tags[tl.tagIndex + 1]]
      [] OTHER -> NoFilter

taskListModel_loadPanics(tl) == tl.vault # NilVault /\ taskListModel_filterPanics(tl)

taskListModel_loadTasks(tl, w, env) ==
    IF tl.vault = NilVault THEN [tl EXCEPT !.tasks = <<>>]
    ELSE IF taskListModel_loadPanics(tl) THEN tl
    ELSE IF Fails(env, "list") THEN [tl EXCEPT !.tasks = <<>>]
    ELSE LET held == sortTasks(TaskStore_List(w.tasks, taskListModel_taskFilter(tl)))
             dc == IF Fails(env, "count") THEN tl.doneCount ELSE Len(DoneTasks(w.tasks))
             tags == IF Fails(env, "tags") THEN <<>> ELSE collectTags(w.tasks)
         IN [tl EXCEPT !.tasks = held, !.doneCount = dc, !.tags = tags,
                       !.cursor = IF tl.cursor >= Len(held)
                                  THEN Max(0, Len(held) - 1) ELSE tl.cursor]

\* a variant that enters tag mode even when no tag exists
taskListModel_advanceFilter_NoSkip(tl) ==
    IF tl.filter = taskFilterByTag
    THEN IF tl.tagIndex + 1 >= Len(tl.tags)
         THEN [tl EXCEPT !.tagIndex = 0, !.filter = taskFilterAll]
         ELSE [tl EXCEPT !.tagIndex = @ + 1]
    ELSE LET next0 == (tl.filter + 1) % taskFilterCount
             next == next0
         IN IF next = taskFilterByTag
            THEN [tl EXCEPT !.tagIndex = 0, !.filter = next]
            ELSE [tl EXCEPT !.filter = next]

taskListModel_advanceFilter(tl) ==
    IF tl.filter = taskFilterByTag
    THEN IF tl.tagIndex + 1 >= Len(tl.tags)
         THEN [tl EXCEPT !.tagIndex = 0, !.filter = taskFilterAll]
         ELSE [tl EXCEPT !.tagIndex = @ + 1]
    ELSE LET next0 == (tl.filter + 1) % taskFilterCount
             next == IF next0 = taskFilterByTag /\ Len(tl.tags) = 0
                     THEN taskFilterAll ELSE next0
         IN IF next = taskFilterByTag
            THEN [tl EXCEPT !.tagIndex = 0, !.filter = next]
            ELSE [tl EXCEPT !.filter = next]

\* the reload that ends a handler, with the panic it may raise
taskListModel_reload(tl, w, env) ==
    Res(taskListModel_loadTasks(tl, w, env), Panic(w, taskListModel_loadPanics(tl)), <<>>)

\* the toggled copy of a task: done flipped, CompletedAt set or cleared
toggled(t, now) ==
    [t EXCEPT !.done = ~t.done, !.completedAt = IF ~t.done THEN now ELSE NoTime]

taskListModel_toggleDone(tl, w, env) ==
    IF tl.vault = NilVault \/ Len(tl.tasks) = 0 THEN Res(tl, w, <<>>)
    ELSE IF tl.cursor >= Len(tl.tasks) THEN Res(tl, Panic(w, TRUE), <<>>)
    ELSE IF Fails(env, "write") THEN Res(tl, w, <<MsgCmd(errMsg("update task"))>>)
    ELSE taskListModel_reload(tl,
             [w EXCEPT !.tasks = colPut(@, toggled(tl.tasks[tl.cursor + 1], env.now))], env)

taskListModel_deleteSelected(tl, w, env) ==
    IF tl.vault = NilVault \/ Len(tl.tasks) = 0 THEN Res(tl, w, <<>>)
    ELSE IF tl.cursor >= Len(tl.tasks) THEN Res(tl, Panic(w, TRUE), <<>>)
    ELSE IF Fails(env, "write") THEN Res(tl, w, <<MsgCmd(errMsg("delete task"))>>)
    ELSE taskListModel_reload(tl,
             [w EXCEPT !.tasks = colDelete(@, tl.tasks[tl.cursor + 1].id)], env)

taskListModel_clearDone(tl, w, env) ==
    IF tl.vault = NilVault THEN Res(tl, w, <<>>)
    ELSE IF Fails(env, "write")
    THEN Res(tl, [w EXCEPT !.tasks = ClearFirstDone(@, env.part)],
             <<MsgCmd(errMsg("clear done"))>>)
    ELSE taskListModel_reload(tl, [w EXCEPT !.tasks = TaskStore_ClearDone(@)], env)

taskListModel_handleConfirm(tl, msg, w, env) ==
    IF msg.key = "y"
    THEN IF tl.confirm = "delete"
         THEN taskListModel_deleteSelected([tl EXCEPT !.confirm = "none"], w, env)
         ELSE IF tl.confirm = "clearDone"
         THEN taskListModel_clearDone([tl EXCEPT !.confirm = "none"], w, env)
         ELSE Res(tl, w, <<>>)
    ELSE IF msg.key \in {"n", "esc"} THEN Res([tl EXCEPT !.confirm = "none"], w, <<>>)
    ELSE Res(tl, w, <<>>)

taskListModel_Update(tl, msg, w, env) ==
    IF msg.type = "navigate"
    THEN IF msg.view = "taskList"
         THEN LET r == taskListModel_reload(tl, w, env)
              IN Res([r.s EXCEPT !.confirm = "none"], r.w, <<>>)
         ELSE Res(tl, w, <<>>)
    ELSE IF msg.type # "key" THEN Res(tl, w, <<>>)
    ELSE IF tl.confirm # "none" THEN taskListModel_handleConfirm(tl, msg, w, env)
    ELSE IF msg.key \in KeyBack THEN Res(tl, w, <<MsgCmd(navigateMsg("menu", NoData))>>)
    ELSE IF msg.key \in KeyUp
    THEN Res(IF tl.cursor > 0 THEN [tl EXCEPT !.cursor = @ - 1] ELSE tl, w, <<>>)
    ELSE IF msg.key \in KeyDown
    THEN Res(IF tl.cursor < Len(tl.tasks) - 1 THEN [tl EXCEPT !.cursor = @ + 1] ELSE tl,
             w, <<>>)
    ELSE IF msg.key \in KeyEnter
    THEN IF Len(tl.tasks) = 0 THEN Res(tl, w, <<>>)
         ELSE IF tl.cursor >= Len(tl.tasks) THEN Res(tl, Panic(w, TRUE), <<>>)
         ELSE Res(tl, w, <<MsgCmd(navigateMsg("taskDetail",
                                              IdData(tl.tasks[tl.cursor + 1].id)))>>)
    ELSE IF msg.key = " "
    THEN IF Len(tl.tasks) > 0 THEN taskListModel_toggleDone(tl, w, env) ELSE Res(tl, w, <<>>)
    ELSE IF msg.key = "n" THEN Res(tl, w, <<MsgCmd(navigateMsg("taskForm", NoData))>>)
    ELSE IF msg.key = "d"
    THEN Res(IF Len(tl.tasks) > 0 THEN [tl EXCEPT !.confirm = "delete"] ELSE tl, w, <<>>)
    ELSE IF msg.key = "x"
    THEN Res(IF tl.doneCount > 0 THEN [tl EXCEPT !.confirm = "clearDone"] ELSE tl, w, <<>>)
    ELSE IF msg.key \in KeyTab
    THEN taskListModel_reload(taskListModel_advanceFilter(tl), w, env)
    ELSE Res(tl, w, <<>>)

\* taskListModel.View: filterLabel indexes m.tags[m.tagIndex], confirmPrompt
\* indexes m.tasks[m.cursor]
taskListModel_ViewPanics(tl) ==
    \/ taskListModel_filterPanics(tl)
    \/ Len(tl.tasks) > 0 /\ tl.confirm = "delete" /\ tl.cursor >= Len(tl.tasks)

----------------------------------------------------------------------------
(* Clipboard and timers *)

clipboardClearDelay == 10

\* a variant that batches the write without the clear timer
copyToClipboard_Untimed(label, val) ==
    <<[cmd |-> "clipWrite", field |-> label, val |-> val]>>

\* the two commands copyToClipboard batches: the write and the clear timer
copyToClipboard(label, val) ==
    <<[cmd |-> "clipWrite", field |-> label, val |-> val], [cmd |-> "clipClearTick"]>>

totpTickCmd == [cmd |-> "totpTick"]

openURL(url) == [cmd |-> "openURL", url |-> url]

----------------------------------------------------------------------------
(* TOTP *)

period == 30

digits == 6

Digits == <<"0", "1", "2", "3", "4", "5", "6", "7", "8", "9">>

NotBase32 == {"0", "1", "8", "9", "+", ",", "/", "-"}

\* Go's integer division and remainder: the quotient is truncated towards
\* zero and the remainder takes the sign of the dividend
Quo(a, b) == IF a >= 0 THEN a \div b ELSE -((-a) \div b)

Rem(a, b) == a - b * Quo(a, b)

\* byte j (0 the lowest) of a natural number below 2^31
ByteOf(n, j) == IF j >= 4 THEN 0 ELSE (n \div (256 ^ j)) % 256

\* binary.BigEndian.PutUint64 of uint64(x): a negative x wraps to 2^64 + x
PutUint64(x) ==
    [i \in 1..8 |-> IF x >= 0 THEN ByteOf(x, 8 - i) ELSE 255 - ByteOf(-x - 1, 8 - i)]

\* the number the dynamic truncation takes from the HMAC-SHA1 of buf under
\* key.  The digest is not computed: a polynomial hash of the same two
\* arguments stands for it.
RECURSIVE Mixed(_, _)
Mixed(h, xs) == IF xs = <<>> THEN h ELSE Mixed((h * 31 + Head(xs) + 1) % 1000003, Tail(xs))

hmac_Sum(key, buf) == Mixed(Mixed(7, [i \in 1..Len(key) |-> CharRank(key[i])]), buf)

\* fmt.Sprintf("%0*d", digits, n)
Sprintf0(n) == [i \in 1..digits |-> Digits[((n \div (10 ^ (digits - i))) % 10) + 1]]

hotp(key, counter) == Sprintf0(hmac_Sum(key, PutUint64(counter)) % 1000000)

\* decodeSecret: spaces are dropped and the case is folded, the rest is
\* padded and decoded; base32 has no text of 1, 3 or 6 characters modulo 8
totp_Generate(sec, now) ==
    IF \/ \E i \in 1..Len(sec) : sec[i] \in NotBase32
       \/ (Len(SelectSeq(sec, LAMBDA c : c # " ")) % 8) \in {1, 3, 6}
    THEN [err |-> TRUE, code |-> NoText, remaining |-> 0]
    ELSE [err |-> FALSE,
          code |-> hotp(ToLower(SelectSeq(sec, LAMBDA c : c # " ")), Quo(now, period)),
          remaining |-> period - Rem(now, period)]

----------------------------------------------------------------------------
(* Secret detail view: secretDetailModel *)

NoId == 0

\* an empty Fields map
NoFields == [k \in {} |-> NoText]

SetField(f, k, v) == [x \in DOMAIN f \cup {k} |-> IF x = k THEN v ELSE f[x]]

\* the zero value secret.Secret{}
NoSecret ==
    [id |-> NoId, name |-> NoText, type |-> "", fields |-> NoFields, tags |-> <<>>,
     created |-> NoTime, updated |-> NoTime]

\* Time.Format, on the clock readings of the model
TimeText(t) == <<"@", Digits[(t % 10) + 1]>>

detailField(label, value, sensitive, live, action) ==
    [label |-> label, value |-> value, sensitive |-> sensitive, live |-> live,
     action |-> action]

\* a variant that leaves the public key of an SSH key out
buildDetailFields_NoPublicKey(s) ==
    LET notes == IF field(s, "notes") # NoText
                 THEN <<detailField("notes", field(s, "notes"), FALSE, FALSE, "none")>>
                 ELSE <<>>
        byType ==
          CASE s.type = "password" ->
                 <<detailField("url", field(s, "url"), FALSE, FALSE, "open"),
                   detailField("username", field(s, "username"), FALSE, FALSE, "copy"),
                   detailField("password", field(s, "password"), TRUE, FALSE, "copy")>>
                 \o (IF TOTPSecret(s) # NoText
                     THEN <<detailField("totp secret", TOTPSecret(s), TRUE, FALSE, "none"),
                            detailField("totp code", NoText, FALSE, TRUE, "copy")>>
                     ELSE <<>>)
                 \o notes
            [] s.type = "apikey" ->
                 <<detailField("service", field(s, "service"), FALSE, FALSE, "none"),
                   detailField("key", field(s, "key"), TRUE, FALSE, "copy")>> \o notes
            [] s.type = "sshkey" ->
                 <<detailField("label", field(s, "label"), FALSE, FALSE, "none"),
                   detailField("private key", field(s, "private_key"), TRUE, FALSE, "copy")>>
                 \o (IF field(s, "passphrase") # NoText
                     THEN <<detailField("passphrase", field(s, "passphrase"), TRUE, FALSE,
                                        "copy")>>
                     ELSE <<>>)
                 \o notes
            [] s.type = "note" ->
                 <<detailField("content", field(s, "content"), FALSE, FALSE, "none")>>
            [] OTHER -> <<>>
    IN <<detailField("name", s.name, FALSE, FALSE, "none"),
         detailField("type", TypeText(s.type), FALSE, FALSE, "none")>>
       \o byType
       \o (IF Len(s.tags) > 0
           THEN <<detailField("tags", JoinTags(s.tags), FALSE, FALSE, "none")>> ELSE <<>>)
       \o <<detailField("created", TimeText(s.created), FALSE, FALSE, "none"),
            detailField("updated", TimeText(s.updated), FALSE, FALSE, "none")>>

buildDetailFields(s) ==
    LET notes == IF field(s, "notes") # NoText
                 THEN <<detailField("notes", field(s, "notes"), FALSE, FALSE, "none")>>
                 ELSE <<>>
        byType ==
          CASE s.type = "password" ->
                 <<detailField("url", field(s, "url"), FALSE, FALSE, "open"),
                   detailField("username", field(s, "username"), FALSE, FALSE, "copy"),
                   detailField("password", field(s, "password"), TRUE, FALSE, "copy")>>
                 \o (IF TOTPSecret(s) # NoText
                     THEN <<detailField("totp secret", TOTPSecret(s), TRUE, FALSE, "none"),
                            detailField("totp code", NoText, FALSE, TRUE, "copy")>>
                     ELSE <<>>)
                 \o notes
            [] s.type = "apikey" ->
                 <<detailField("service", field(s, "service"), FALSE, FALSE, "none"),
                   detailField("key", field(s, "key"), TRUE, FALSE, "copy")>> \o notes
            [] s.type = "sshkey" ->
                 <<detailField("label", field(s, "label"), FALSE, FALSE, "none"),
                   detailField("private key", field(s, "private_key"), TRUE, FALSE, "copy"),
                   detailField("public key", field(s, "public_key"), FALSE, FALSE, "copy")>>
                 \o (IF field(s, "passphrase") # NoText
                     THEN <<detailField("passphrase", field(s, "passphrase"), TRUE, FALSE,
                                        "copy")>>
                     ELSE <<>>)
                 \o notes
            [] s.type = "note" ->
                 <<detailField("content", field(s, "content"), FALSE, FALSE, "none")>>
            [] OTHER -> <<>>
    IN <<detailField("name", s.name, FALSE, FALSE, "none"),
         detailField("type", TypeText(s.type), FALSE, FALSE, "none")>>
       \o byType
       \o (IF Len(s.tags) > 0
           THEN <<detailField("tags", JoinTags(s.tags), FALSE, FALSE, "none")>> ELSE <<>>)
       \o <<detailField("created", TimeText(s.created), FALSE, FALSE, "none"),
            detailField("updated", TimeText(s.updated), FALSE, FALSE, "none")>>

newSecretDetail ==
    [vault |-> NilVault, secret |-> NoSecret, secretID |-> NoId,
     showSensitive |-> FALSE, clipboardMsg |-> <<>>, confirmDelete |-> FALSE,
     cursor |-> 0, fields |-> <<>>, totpCode |-> NoText, totpRemaining |-> 0,
     hasTOTP |-> FALSE]

\* a variant that also moves the field cursor back to the first row
secretDetailModel_refreshTOTP_Rewind(sd, env) ==
    LET g == totp_Generate(TOTPSecret(sd.secret), env.now)
    IN IF g.err THEN [sd EXCEPT !.totpCode = NoText, !.totpRemaining = 0, !.cursor = 0]
       ELSE [sd EXCEPT !.totpCode = g.code, !.totpRemaining = g.remaining, !.cursor = 0]

\* a variant that leaves the code and the countdown as they are
secretDetailModel_refreshTOTP_Kept(sd, env) == sd

secretDetailModel_refreshTOTP(sd, env) ==
    LET g == totp_Generate(TOTPSecret(sd.secret), env.now)
    IN IF g.err THEN [sd EXCEPT !.totpCode = NoText, !.totpRemaining = 0]
       ELSE [sd EXCEPT !.totpCode = g.code, !.totpRemaining = g.remaining]

secretDetailModel_load(sd, w, env) ==
    IF sd.vault = NilVault \/ sd.secretID = NoId THEN sd
    ELSE IF Fails(env, "get") \/ ~HasId(w.secrets, sd.secretID) THEN sd
    ELSE LET s == colGet(w.secrets, sd.secretID)
             flds == buildDetailFields(s)
             s1 == [sd EXCEPT !.secret = s, !.fields = flds,
                              !.hasTOTP = (TOTPSecret(s) # NoText)]
             s2 == IF s1.hasTOTP THEN secretDetailModel_refreshTOTP(s1, env) ELSE s1
         IN IF s2.cursor >= Len(flds) THEN [s2 EXCEPT !.cursor = 0] ELSE s2

secretDetailModel_handleDeleteConfirm(sd, msg, w, env) ==
    IF msg.key \in {"y", "Y"}
    THEN IF sd.vault # NilVault /\ Fails(env, "write")
         THEN Res([sd EXCEPT !.confirmDelete = FALSE], w,
                  <<MsgCmd(errMsg("delete secret"))>>)
         ELSE Res([sd EXCEPT !.confirmDelete = FALSE],
                  IF sd.vault # NilVault
                  THEN [w EXCEPT !.secrets = colDelete(@, sd.secretID)] ELSE w,
                  <<MsgCmd(navigateMsg("secretList", NoData))>>)
    ELSE IF msg.key \in {"n", "N", "esc"}
    THEN Res([sd EXCEPT !.confirmDelete = FALSE], w, <<>>)
    ELSE Res(sd, w, <<>>)

secretDetailModel_handleFieldCopy(sd, f) ==
    copyToClipboard(f.label, IF f.live /\ sd.totpCode # NoText THEN sd.totpCode ELSE f.value)

secretDetailModel_handleFieldAction(sd, f) ==
    IF f.action = "copy" THEN secretDetailModel_handleFieldCopy(sd, f)
    ELSE IF f.action = "open" /\ f.value # NoText THEN <<openURL(f.value)>>
    ELSE <<>>

secretDetailModel_handleKeys(sd, msg, w) ==
    IF msg.key \in KeyBack THEN Res(sd, w, <<MsgCmd(navigateMsg("secretList", NoData))>>)
    ELSE IF msg.key \in KeyUp
    THEN Res(IF sd.cursor > 0 THEN [sd EXCEPT !.cursor = @ - 1] ELSE sd, w, <<>>)
    ELSE IF msg.key \in KeyDown
    THEN Res(IF sd.cursor < Len(sd.fields) - 1 THEN [sd EXCEPT !.cursor = @ + 1] ELSE sd,
             w, <<>>)
    ELSE IF msg.key \in KeyEnter
    THEN IF sd.cursor < Len(sd.fields)
         THEN Res(sd, w, secretDetailModel_handleFieldAction(sd, sd.fields[sd.cursor + 1]))
         ELSE Res(sd, w, <<>>)
    ELSE IF msg.key = "s" THEN Res([sd EXCEPT !.showSensitive = ~@], w, <<>>)
    ELSE IF msg.key = "e"
    THEN Res(sd, w, <<MsgCmd(navigateMsg("secretForm", IdData(sd.secretID)))>>)
    ELSE IF msg.key = "d" THEN Res([sd EXCEPT !.confirmDelete = TRUE], w, <<>>)
    ELSE Res(sd, w, <<>>)

\* a variant that keeps the reveal flag from one secret to the next
secretDetailModel_Update_KeepShown(sd, msg, w, env) ==
    IF msg.type = "navigate"
    THEN IF msg.view = "secretDetail" /\ msg.data.kind = "id"
         THEN LET s1 == secretDetailModel_load(
                            [sd EXCEPT !.secretID = msg.data.id,
                                       !.confirmDelete = FALSE, !.clipboardMsg = <<>>,
                                       !.cursor = 0], w, env)
              IN Res(s1, w, IF s1.hasTOTP THEN <<totpTickCmd>> ELSE <<>>)
         ELSE Res(sd, w, <<>>)
    ELSE IF msg.type = "totpTick"
    THEN IF ~sd.hasTOTP THEN Res(sd, w, <<>>)
         ELSE Res(secretDetailModel_refreshTOTP(sd, env), w, <<totpTickCmd>>)
    ELSE IF msg.type = "clipboardCopied"
    THEN Res([sd EXCEPT !.clipboardMsg = <<"copied", msg.field, "(clears in 10s)">>],
             w, <<>>)
    ELSE IF msg.type = "clipboardCleared" THEN Res([sd EXCEPT !.clipboardMsg = <<>>], w, <<>>)
    ELSE IF msg.type = "key"
    THEN IF sd.confirmDelete THEN secretDetailModel_handleDeleteConfirm(sd, msg, w, env)
         ELSE secretDetailModel_handleKeys(sd, msg, w)
    ELSE Res(sd, w, <<>>)

secretDetailModel_Update(sd, msg, w, env) ==
    IF msg.type = "navigate"
    THEN IF msg.view = "secretDetail" /\ msg.data.kind = "id"
         THEN LET s1 == secretDetailModel_load(
                            [sd EXCEPT !.secretID = msg.data.id, !.showSensitive = FALSE,
                                       !.confirmDelete = FALSE, !.clipboardMsg = <<>>,
                                       !.cursor = 0], w, env)
              IN Res(s1, w, IF s1.hasTOTP THEN <<totpTickCmd>> ELSE <<>>)
         ELSE Res(sd, w, <<>>)
    ELSE IF msg.type = "totpTick"
    THEN IF ~sd.hasTOTP THEN Res(sd, w, <<>>)
         ELSE Res(secretDetailModel_refreshTOTP(sd, env), w, <<totpTickCmd>>)
    ELSE IF msg.type = "clipboardCopied"
    THEN Res([sd EXCEPT !.clipboardMsg = <<"copied", msg.field, "(clears in 10s)">>],
             w, <<>>)
    ELSE IF msg.type = "clipboardCleared" THEN Res([sd EXCEPT !.clipboardMsg = <<>>], w, <<>>)
    ELSE IF msg.type = "key"
    THEN IF sd.confirmDelete THEN secretDetailModel_handleDeleteConfirm(sd, msg, w, env)
         ELSE secretDetailModel_handleKeys(sd, msg, w)
    ELSE Res(sd, w, <<>>)

\* typeBadge, on the text of the type
typeBadge(t) ==
    <<"[">> \o (CASE t = TypeText("password") -> <<"p", "w">>
                  [] t = TypeText("apikey") -> <<"a", "p", "i">>
                  [] t = TypeText("sshkey") -> <<"s", "s", "h">>
                  [] t = TypeText("note") -> <<"n", "o", "t", "e">>
                  [] OTHER -> t) \o <<"]">>

\* the placeholder View writes for a hidden sensitive field
Mask == <<"*", "*", "*", "*", "*", "*", "*", "*">>

Generating == <<"generating...">>

\* a variant that masks a value character by character
secretDetailModel_renderValue_ByLength(sd, f) ==
    IF f.live
    THEN IF sd.totpCode # NoText THEN sd.totpCode \o TimeText(sd.totpRemaining)
         ELSE Generating
    ELSE IF f.label = "type" THEN typeBadge(f.value)
    ELSE IF f.sensitive /\ ~sd.showSensitive THEN [i \in 1..Len(f.value) |-> "*"]
    ELSE f.value

\* the value column View writes for the field f
secretDetailModel_renderValue(sd, f) ==
    IF f.live
    THEN IF sd.totpCode # NoText THEN sd.totpCode \o TimeText(sd.totpRemaining)
         ELSE Generating
    ELSE IF f.label = "type" THEN typeBadge(f.value)
    ELSE IF f.sensitive /\ ~sd.showSensitive THEN Mask
    ELSE f.value

\* what View writes while no secret is selected
NoSecretSelected == <<<<"no secret selected">>>>

\* the value column of every field row of View
secretDetailModel_View(sd) ==
    IF sd.secretID = NoId THEN NoSecretSelected
    ELSE [i \in 1..Len(sd.fields) |-> secretDetailModel_renderValue(sd, sd.fields[i])]

----------------------------------------------------------------------------
(* Task detail view: taskDetailModel *)

NoTask ==
    [id |-> NoId, title |-> NoText, done |-> FALSE, priority |-> PriorityNone,
     due |-> NoTime, tags |-> <<>>, created |-> NoTime, completedAt |-> NoTime]

newTaskDetailModel == [vault |-> NilVault, task |-> NoTask, loaded |-> FALSE,
                       confirm |-> "none"]

taskDetailModel_loadTask(td, id, w, env) ==
    IF td.vault = NilVault THEN td
    ELSE IF Fails(env, "get") \/ ~HasId(w.tasks, id) THEN [td EXCEPT !.loaded = FALSE]
    ELSE [td EXCEPT !.task = colGet(w.tasks, id), !.loaded = TRUE, !.confirm = "none"]

\* the in-memory task is toggled before the store call and stays toggled
\* when the call fails
taskDetailModel_toggleDone(td, w, env) ==
    IF td.vault = NilVault THEN Res(td, w, <<>>)
    ELSE LET t == toggled(td.task, env.now)
             t1 == [td EXCEPT !.task = t]
         IN IF Fails(env, "write") THEN Res(t1, w, <<MsgCmd(errMsg("update task"))>>)
            ELSE Res(t1, [w EXCEPT !.tasks = colPut(@, t)], <<>>)

taskDetailModel_deleteTask(td, w, env) ==
    IF td.vault = NilVault THEN Res(td, w, <<>>)
    ELSE IF Fails(env, "write") THEN Res(td, w, <<MsgCmd(errMsg("delete task"))>>)
    ELSE Res(td, [w EXCEPT !.tasks = colDelete(@, td.task.id)],
             <<MsgCmd(navigateMsg("taskList", NoData))>>)

taskDetailModel_handleConfirm(td, msg, w, env) ==
    IF msg.key = "y"
    THEN IF td.confirm = "delete"
         THEN taskDetailModel_deleteTask([td EXCEPT !.confirm = "none"], w, env)
         ELSE Res(td, w, <<>>)
    ELSE IF msg.key \in {"n", "esc"} THEN Res([td EXCEPT !.confirm = "none"], w, <<>>)
    ELSE Res(td, w, <<>>)

taskDetailModel_Update(td, msg, w, env) ==
    IF msg.type = "navigate"
    THEN IF msg.view = "taskDetail" /\ msg.data.kind = "id"
         THEN Res(taskDetailModel_loadTask(td, msg.data.id, w, env), w, <<>>)
         ELSE Res(td, w, <<>>)
    ELSE IF msg.type # "key" THEN Res(td, w, <<>>)
    ELSE IF td.confirm # "none" THEN taskDetailModel_handleConfirm(td, msg, w, env)
    ELSE IF msg.key \in KeyBack THEN Res(td, w, <<MsgCmd(navigateMsg("taskList", NoData))>>)
    ELSE IF msg.key = "e"
    THEN Res(td, w, IF td.loaded
                    THEN <<MsgCmd(navigateMsg("taskForm", TaskData(td.task)))>> ELSE <<>>)
    ELSE IF msg.key = " "
    THEN IF td.loaded THEN taskDetailModel_toggleDone(td, w, env) ELSE Res(td, w, <<>>)
    ELSE IF msg.key = "d"
    THEN Res(IF td.loaded THEN [td EXCEPT !.confirm = "delete"] ELSE td, w, <<>>)
    ELSE Res(td, w, <<>>)

----------------------------------------------------------------------------
(* Dates.  A time is a day number; the date text of day d is 2026-01-0d.    *)

DigitValue(c) == CHOOSE d \in 0..9 : Digits[d + 1] = c

IsDigit(c) == \E d \in 0..9 : Digits[d + 1] = c

RECURSIVE DigitsValue(_, _)
DigitsValue(s, acc) ==
    IF s = <<>> THEN acc ELSE DigitsValue(Tail(s), 10 * acc + DigitValue(Head(s)))

\* strconv.Atoi: an optional sign and at least one digit
Atoi(s) ==
    LET body == IF s # <<>> /\ Head(s) \in {"+", "-"} THEN Tail(s) ELSE s
    IN IF body = <<>> \/ \E i \in 1..Len(body) : ~IsDigit(body[i])
       THEN [err |-> TRUE, n |-> 0]
       ELSE [err |-> FALSE,
             n |-> IF Head(s) = "-" THEN 0 - DigitsValue(body, 0) ELSE DigitsValue(body, 0)]

DatePrefix == <<"2", "0", "2", "6", "-", "0", "1", "-", "0">>

\* formatDateForEdit
formatDateForEdit(t) == IF t = NoTime THEN NoText ELSE DatePrefix \o <<Digits[(t % 10) + 1]>>

\* time.Parse("2006-01-02", s), for the dates 2026-01-01 .. 2026-01-09
time_Parse(s) ==
    IF Len(s) = 10 /\ SubSeq(s, 1, 9) = DatePrefix /\ IsDigit(s[10]) /\ s[10] # "0"
    THEN [err |-> FALSE, t |-> DigitValue(s[10])]
    ELSE [err |-> TRUE, t |-> NoTime]

Today == <<"t", "o", "d", "a", "y">>
Tomorrow == <<"t", "o", "m", "o", "r", "r", "o", "w">>
NextWeek == <<"n", "e", "x", "t", " ", "w", "e", "e", "k">>

parseRelativeDate(raw, now) ==
    LET s == TrimSpace(raw)
        lower == ToLower(s)
        off == Atoi(SubSeq(lower, 2, Len(lower) - 1))
    IN IF s = NoText THEN [err |-> "", t |-> NoTime]
       ELSE IF lower = Today THEN [err |-> "", t |-> now]
       ELSE IF lower = Tomorrow THEN [err |-> "", t |-> now + 1]
       ELSE IF lower = NextWeek THEN [err |-> "", t |-> now + 7]
       ELSE IF Head(lower) = "+" /\ lower[Len(lower)] = "d"
       THEN IF off.err THEN [err |-> "invalid day offset", t |-> NoTime]
            ELSE [err |-> "", t |-> now + off.n]
       ELSE IF Head(lower) = "+" /\ lower[Len(lower)] = "w"
       THEN IF off.err THEN [err |-> "invalid week offset", t |-> NoTime]
            ELSE [err |-> "", t |-> now + 7 * off.n]
       ELSE IF time_Parse(s).err THEN [err |-> "invalid date format", t |-> NoTime]
       ELSE [err |-> "", t |-> time_Parse(s).t]

----------------------------------------------------------------------------
(* Task form view: taskFormModel *)

fieldTitle == 0
fieldPriority == 1
fieldDue == 2
fieldTags == 3
formFieldCount == 4

\* editing = NoTask is the nil pointer of create mode
newTaskFormModel ==
    [vault |-> NilVault, editing |-> NoTask, title |-> NoText, due |-> NoText,
     tags |-> NoText, priority |-> PriorityNone, focused |-> fieldTitle, err |-> ""]

taskFormModel_reset(tf) ==
    [tf EXCEPT !.editing = NoTask, !.title = NoText, !.due = NoText, !.tags = NoText,
               !.priority = PriorityNone, !.focused = fieldTitle, !.err = ""]

taskFormModel_loadTask(tf, t) ==
    [tf EXCEPT !.editing = t, !.title = t.title, !.priority = t.priority,
               !.due = formatDateForEdit(t.due),
               !.tags = IF Len(t.tags) > 0 THEN JoinTags(t.tags) ELSE NoText,
               !.focused = fieldTitle, !.err = ""]

taskFormModel_cyclePriority(tf) ==
    IF \E i \in 1..Len(Priorities) : Priorities[i] = tf.priority
    THEN LET i == CHOOSE j \in 1..Len(Priorities) : Priorities[j] = tf.priority
         IN [tf EXCEPT !.priority = Priorities[(i % Len(Priorities)) + 1]]
    ELSE [tf EXCEPT !.priority = Priorities[1]]

taskFormModel_nextField(tf) == [tf EXCEPT !.focused = (@ + 1) % formFieldCount]

\* a variant that stops at the title instead of wrapping to the tags
taskFormModel_prevField_Clamped(tf) ==
    [tf EXCEPT !.focused = IF @ = 0 THEN 0 ELSE @ - 1]

taskFormModel_prevField(tf) ==
    [tf EXCEPT !.focused = IF @ = 0 THEN formFieldCount - 1 ELSE @ - 1]

taskFormModel_updateInputs(tf, msg) ==
    IF msg.type # "key" THEN tf
    ELSE IF tf.focused = fieldTitle
    THEN [tf EXCEPT !.title = textinput_Update(@, msg.key)]
    ELSE IF tf.focused = fieldDue THEN [tf EXCEPT !.due = textinput_Update(@, msg.key)]
    ELSE IF tf.focused = fieldTags THEN [tf EXCEPT !.tags = textinput_Update(@, msg.key)]
    ELSE tf

\* task.New
task_New(title, id, now) ==
    [NoTask EXCEPT !.id = id, !.title = title, !.created = now]

\* a variant whose edit builds a fresh record under the old identifier
taskFormModel_store_Rebuilt(tf, title, due, tags, w, env) ==
    IF title = NoText THEN Res([tf EXCEPT !.err = "title is required"], w, <<>>)
    ELSE IF due.err # "" THEN Res([tf EXCEPT !.err = due.err], w, <<>>)
    ELSE IF tf.vault = NilVault
    THEN Res([tf EXCEPT !.err = "vault not available"], w, <<>>)
    ELSE IF tf.editing # NoTask
    THEN LET t == [task_New(title, tf.editing.id, env.now) EXCEPT !.title = title, !.priority = tf.priority,
                                     !.due = due.t, !.tags = tags]
         IN IF Fails(env, "write")
            THEN Res([tf EXCEPT !.editing = t, !.err = "save task"], w, <<>>)
            ELSE Res([tf EXCEPT !.editing = t], [w EXCEPT !.tasks = colPut(@, t)],
                     <<MsgCmd(navigateMsg("taskList", NoData))>>)
    ELSE IF Fails(env, "write")
    THEN Res([tf EXCEPT !.err = "add task"], [w EXCEPT !.nextId = @ + 1], <<>>)
    ELSE Res(tf, [w EXCEPT !.nextId = @ + 1,
                           !.tasks = colPut(@, [task_New(title, w.nextId, env.now) EXCEPT
                                                   !.priority = tf.priority,
                                                   !.due = due.t, !.tags = tags])],
             <<MsgCmd(navigateMsg("taskList", NoData))>>)

\* save, once its three inputs are parsed
taskFormModel_store(tf, title, due, tags, w, env) ==
    IF title = NoText THEN Res([tf EXCEPT !.err = "title is required"], w, <<>>)
    ELSE IF due.err # "" THEN Res([tf EXCEPT !.err = due.err], w, <<>>)
    ELSE IF tf.vault = NilVault
    THEN Res([tf EXCEPT !.err = "vault not available"], w, <<>>)
    ELSE IF tf.editing # NoTask
    THEN LET t == [tf.editing EXCEPT !.title = title, !.priority = tf.priority,
                                     !.due = due.t, !.tags = tags]
         IN IF Fails(env, "write")
            THEN Res([tf EXCEPT !.editing = t, !.err = "save task"], w, <<>>)
            ELSE Res([tf EXCEPT !.editing = t], [w EXCEPT !.tasks = colPut(@, t)],
                     <<MsgCmd(navigateMsg("taskList", NoData))>>)
    ELSE IF Fails(env, "write")
    THEN Res([tf EXCEPT !.err = "add task"], [w EXCEPT !.nextId = @ + 1], <<>>)
    ELSE Res(tf, [w EXCEPT !.nextId = @ + 1,
                           !.tasks = colPut(@, [task_New(title, w.nextId, env.now) EXCEPT
                                                   !.priority = tf.priority,
                                                   !.due = due.t, !.tags = tags])],
             <<MsgCmd(navigateMsg("taskList", NoData))>>)

taskFormModel_save(tf, w, env) ==
    taskFormModel_store(tf, TrimSpace(tf.title), parseRelativeDate(tf.due, env.now),
                        parseTags(tf.tags), w, env)

\* the key cases of Update, entered with the error line cleared
taskFormModel_handleKey(t1, msg, w, env) ==
    IF msg.key \in KeyBack
    THEN Res(t1, w, <<MsgCmd(navigateMsg("taskList", NoData))>>)
    ELSE IF msg.key = "ctrl+s" \/ (msg.key \in KeyEnter /\ t1.focused = fieldTags)
    THEN taskFormModel_save(t1, w, env)
    ELSE IF msg.key \in KeyTab THEN Res(taskFormModel_nextField(t1), w, <<>>)
    ELSE IF msg.key = "shift+tab" THEN Res(taskFormModel_prevField(t1), w, <<>>)
    ELSE IF msg.key \in KeyEnter
    THEN IF t1.focused = fieldPriority
         THEN Res(taskFormModel_cyclePriority(t1), w, <<>>)
         ELSE Res(taskFormModel_nextField(t1), w, <<>>)
    ELSE IF msg.key = " " /\ t1.focused = fieldPriority
    THEN Res(taskFormModel_cyclePriority(t1), w, <<>>)
    ELSE Res(taskFormModel_updateInputs(t1, msg), w, <<>>)

taskFormModel_Update(tf, msg, w, env) ==
    IF msg.type = "navigate"
    THEN IF msg.view = "taskForm"
         THEN Res(IF msg.data.kind = "task" THEN taskFormModel_loadTask(tf, msg.data.task)
                  ELSE taskFormModel_reset(tf), w, <<>>)
         ELSE Res(tf, w, <<>>)
    ELSE IF msg.type # "key" THEN Res(taskFormModel_updateInputs(tf, msg), w, <<>>)
    ELSE taskFormModel_handleKey([tf EXCEPT !.err = ""], msg, w, env)

----------------------------------------------------------------------------
(* Secret form view: secretFormModel *)

typeOptions == <<"password", "apikey", "sshkey", "note">>

formInput(label, fieldKey, value, masked) ==
    [label |-> label, fieldKey |-> fieldKey, value |-> value, masked |-> masked]

buildFormInputs(t, s) ==
    <<formInput("name", "name", s.name, FALSE)>>
    \o (CASE t = "password" ->
               <<formInput("url", "url", field(s, "url"), FALSE),
                 formInput("username", "username", field(s, "username"), FALSE),
                 formInput("password", "password", field(s, "password"), TRUE),
                 formInput("totp secret", "totp_secret", TOTPSecret(s), TRUE),
                 formInput("notes", "notes", field(s, "notes"), FALSE)>>
          [] t = "apikey" ->
               <<formInput("service", "service", field(s, "service"), FALSE),
                 formInput("key", "key", field(s, "key"), TRUE),
                 formInput("notes", "notes", field(s, "notes"), FALSE)>>
          [] t = "sshkey" ->
               <<formInput("label", "label", field(s, "label"), FALSE),
                 formInput("private key", "private_key", field(s, "private_key"), TRUE),
                 formInput("public key", "public_key", field(s, "public_key"), FALSE),
                 formInput("passphrase", "passphrase", field(s, "passphrase"), TRUE),
                 formInput("notes", "notes", field(s, "notes"), FALSE)>>
          [] t = "note" -> <<formInput("content", "content", field(s, "content"), FALSE)>>
          [] OTHER -> <<>>)
    \o <<formInput("tags", "tags", IF Len(s.tags) > 0 THEN JoinTags(s.tags) ELSE NoText,
                   FALSE)>>

newSecretForm ==
    [vault |-> NilVault, mode |-> "create", editID |-> NoId, secType |-> "password",
     typeSel |-> 0, inputs |-> <<>>, focused |-> 0, changed |-> FALSE, err |-> "",
     confirmDiscard |-> FALSE]

secretFormModel_initForCreate(sf) ==
    [sf EXCEPT !.mode = "create", !.editID = NoId, !.typeSel = 0,
               !.secType = typeOptions[1], !.changed = FALSE, !.err = "",
               !.confirmDiscard = FALSE,
               !.inputs = buildFormInputs(typeOptions[1], NoSecret), !.focused = -1]

secretFormModel_initForEdit(sf, id, w, env) ==
    LET s0 == [sf EXCEPT !.mode = "edit", !.editID = id, !.changed = FALSE, !.err = "",
                         !.confirmDiscard = FALSE]
    IN IF sf.vault = NilVault THEN s0
       ELSE IF Fails(env, "get") \/ ~HasId(w.secrets, id) THEN [s0 EXCEPT !.err = "get secret"]
       ELSE LET s == colGet(w.secrets, id)
            IN [s0 EXCEPT !.secType = s.type,
                          !.typeSel = (CHOOSE i \in 1..Len(typeOptions) :
                                           typeOptions[i] = s.type) - 1,
                          !.inputs = buildFormInputs(s.type, s), !.focused = 0]

secretFormModel_handleDiscardConfirm(sf, msg, w) ==
    IF msg.key \in {"y", "Y"}
    THEN Res([sf EXCEPT !.confirmDiscard = FALSE], w,
             <<MsgCmd(navigateMsg("secretList", NoData))>>)
    ELSE IF msg.key \in {"n", "N", "esc"}
    THEN Res([sf EXCEPT !.confirmDiscard = FALSE], w, <<>>)
    ELSE Res(sf, w, <<>>)

\* a variant that keeps nothing of the old fields
secretFormModel_rebuildInputsPreserveName_Fresh(sf) ==
    LET fresh == buildFormInputs(sf.secType, NoSecret)
    IN [sf EXCEPT !.inputs = fresh,
                  !.focused = IF sf.focused >= Len(fresh) THEN 0 ELSE sf.focused]

secretFormModel_rebuildInputsPreserveName(sf) ==
    LET name == IF Len(sf.inputs) > 0 THEN sf.inputs[1].value ELSE NoText
        fresh == buildFormInputs(sf.secType, NoSecret)
        named == [fresh EXCEPT ![1].value = name]
    IN [sf EXCEPT !.inputs = named,
                  !.focused = IF sf.focused >= Len(named) THEN 0 ELSE sf.focused]

\* vals[key] of save: the value of the input with that field key, "" if none
formValue(inputs, key) ==
    IF \E i \in 1..Len(inputs) : inputs[i].fieldKey = key
    THEN inputs[CHOOSE i \in 1..Len(inputs) : inputs[i].fieldKey = key].value
    ELSE NoText

\* Fields with the optional keys set only when their value is not empty
RECURSIVE withOptional(_, _, _)
withOptional(f, inputs, keys) ==
    IF keys = <<>> THEN f
    ELSE withOptional(IF formValue(inputs, Head(keys)) # NoText
                      THEN SetField(f, Head(keys), formValue(inputs, Head(keys))) ELSE f,
                      inputs, Tail(keys))

RECURSIVE withAll(_, _, _)
withAll(f, inputs, keys) ==
    IF keys = <<>> THEN f
    ELSE withAll(SetField(f, Head(keys), formValue(inputs, Head(keys))), inputs, Tail(keys))

\* the keys the constructor always sets, the keys set only when not empty
requiredKeys(t) ==
    CASE t = "password" -> <<"url", "username", "password">>
      [] t = "apikey" -> <<"service", "key">>
      [] t = "sshkey" -> <<"label", "private_key", "public_key">>
      [] t = "note" -> <<"content">>
      [] OTHER -> <<>>

optionalKeys(t) ==
    CASE t = "password" -> <<"totp_secret", "notes">>
      [] t = "apikey" -> <<"notes">>
      [] t = "sshkey" -> <<"passphrase", "notes">>
      [] OTHER -> <<>>

secretFormModel_createSecret(sf, name, tags, w, env) ==
    LET s == [id |-> w.nextId, name |-> name, type |-> sf.secType,
              fields |-> withOptional(withAll(NoFields, sf.inputs, requiredKeys(sf.secType)),
                                      sf.inputs, optionalKeys(sf.secType)),
              tags |-> tags, created |-> env.now, updated |-> env.now]
        w1 == [w EXCEPT !.nextId = @ + 1]
    IN IF sf.vault # NilVault /\ Fails(env, "write")
       THEN Res([sf EXCEPT !.err = "add secret"], w1, <<>>)
       ELSE Res(sf, IF sf.vault # NilVault
                    THEN [w1 EXCEPT !.secrets = colPut(@, s)] ELSE w1,
                <<MsgCmd(navigateMsg("secretList", NoData))>>)

\* a variant that takes the type of the written record from the form
secretFormModel_updateSecret_FormType(sf, name, tags, w, env) ==
    IF sf.vault = NilVault THEN Res(sf, w, <<MsgCmd(navigateMsg("secretList", NoData))>>)
    ELSE IF Fails(env, "get") \/ ~HasId(w.secrets, sf.editID)
    THEN Res([sf EXCEPT !.err = "get secret"], w, <<>>)
    ELSE LET s0 == colGet(w.secrets, sf.editID)
             s == [s0 EXCEPT !.name = name, !.tags = tags, !.type = sf.secType,
                             !.fields = withAll(@, sf.inputs,
                                 requiredKeys(sf.secType) \o optionalKeys(sf.secType))]
         IN IF Fails(env, "write") THEN Res([sf EXCEPT !.err = "update secret"], w, <<>>)
            ELSE Res(sf, [w EXCEPT !.secrets = SecretStore_Update(@, s, env.now)],
                     <<MsgCmd(navigateMsg("secretList", NoData))>>)

secretFormModel_updateSecret(sf, name, tags, w, env) ==
    IF sf.vault = NilVault THEN Res(sf, w, <<MsgCmd(navigateMsg("secretList", NoData))>>)
    ELSE IF Fails(env, "get") \/ ~HasId(w.secrets, sf.editID)
    THEN Res([sf EXCEPT !.err = "get secret"], w, <<>>)
    ELSE LET s0 == colGet(w.secrets, sf.editID)
             s == [s0 EXCEPT !.name = name, !.tags = tags,
                             !.fields = withAll(@, sf.inputs,
                                 requiredKeys(s0.type) \o optionalKeys(s0.type))]
         IN IF Fails(env, "write") THEN Res([sf EXCEPT !.err = "update secret"], w, <<>>)
            ELSE Res(sf, [w EXCEPT !.secrets = SecretStore_Update(@, s, env.now)],
                     <<MsgCmd(navigateMsg("secretList", NoData))>>)

\* a variant that saves without looking at the name
secretFormModel_save_Unchecked(sf, w, env) ==
    IF sf.mode = "create"
    THEN secretFormModel_createSecret(sf, TrimSpace(formValue(sf.inputs, "name")),
                                      parseTags(formValue(sf.inputs, "tags")), w, env)
    ELSE secretFormModel_updateSecret(sf, TrimSpace(formValue(sf.inputs, "name")),
                                      parseTags(formValue(sf.inputs, "tags")), w, env)

secretFormModel_save(sf, w, env) ==
    LET name == TrimSpace(formValue(sf.inputs, "name"))
        tags == parseTags(formValue(sf.inputs, "tags"))
    IN IF name = NoText THEN Res([sf EXCEPT !.err = "name is required"], w, <<>>)
       ELSE IF sf.mode = "create" THEN secretFormModel_createSecret(sf, name, tags, w, env)
       ELSE secretFormModel_updateSecret(sf, name, tags, w, env)

secretFormModel_handleKeys(sf, msg, w, env) ==
    LET minFocus == IF sf.mode = "create" THEN -1 ELSE 0
    IN IF msg.key = "ctrl+s" THEN secretFormModel_save(sf, w, env)
       ELSE IF msg.key \in KeyBack
       THEN IF sf.changed THEN Res([sf EXCEPT !.confirmDiscard = TRUE], w, <<>>)
            ELSE Res(sf, w, <<MsgCmd(navigateMsg("secretList", NoData))>>)
       ELSE IF msg.key = "shift+tab"
       THEN Res([sf EXCEPT !.changed = TRUE,
                           !.focused = IF sf.focused > minFocus THEN @ - 1 ELSE @], w, <<>>)
       ELSE IF msg.key \in KeyTab
       THEN Res([sf EXCEPT !.changed = TRUE,
                           !.focused = IF sf.focused < Len(sf.inputs) - 1 THEN @ + 1 ELSE @],
                w, <<>>)
       ELSE IF msg.key \in KeyEnter
       THEN IF sf.focused = -1 THEN Res([sf EXCEPT !.focused = 0], w, <<>>)
            ELSE IF sf.focused = Len(sf.inputs) - 1 THEN secretFormModel_save(sf, w, env)
            ELSE Res([sf EXCEPT !.changed = TRUE,
                                !.focused = IF sf.focused < Len(sf.inputs) - 1
                                            THEN @ + 1 ELSE @], w, <<>>)
       ELSE IF msg.key = "left" /\ sf.mode = "create" /\ sf.focused = -1
       THEN LET sel == IF sf.typeSel > 0 THEN sf.typeSel - 1 ELSE Len(typeOptions) - 1
            IN Res(secretFormModel_rebuildInputsPreserveName(
                       [sf EXCEPT !.typeSel = sel, !.secType = typeOptions[sel + 1]]),
                   w, <<>>)
       ELSE IF msg.key = "right" /\ sf.mode = "create" /\ sf.focused = -1
       THEN LET sel == (sf.typeSel + 1) % Len(typeOptions)
            IN Res(secretFormModel_rebuildInputsPreserveName(
                       [sf EXCEPT !.typeSel = sel, !.secType = typeOptions[sel + 1]]),
                   w, <<>>)
       ELSE IF sf.focused >= 0 /\ sf.focused < Len(sf.inputs)
       THEN LET old == sf.inputs[sf.focused + 1].value
                new == textinput_Update(old, msg.key)
            IN Res([sf EXCEPT !.inputs[sf.focused + 1].value = new,
                              !.changed = IF new # old THEN TRUE ELSE @], w, <<>>)
       ELSE Res(sf, w, <<>>)

secretFormModel_Update(sf, msg, w, env) ==
    IF msg.type = "navigate"
    THEN IF msg.view = "secretForm" /\ msg.data.kind = "nil"
         THEN Res(secretFormModel_initForCreate(sf), w, <<>>)
         ELSE IF msg.view = "secretForm" /\ msg.data.kind = "id"
         THEN Res(secretFormModel_initForEdit(sf, msg.data.id, w, env), w, <<>>)
         ELSE Res(sf, w, <<>>)
    ELSE IF msg.type = "key"
    THEN IF sf.confirmDiscard THEN secretFormModel_handleDiscardConfirm(sf, msg, w)
         ELSE secretFormModel_handleKeys(sf, msg, w, env)
    ELSE Res(sf, w, <<>>)

----------------------------------------------------------------------------
(* Root model: Model *)

\* New / NewWithDir
New(firstRun) ==
    [view |-> "password", vault |-> NilVault, err |-> "",
     password |-> newPasswordModel(firstRun), menu |-> newMenuModel,
     secretList |-> newSecretList, secretDetail |-> newSecretDetail,
     secretForm |-> newSecretForm, taskList |-> newTaskListModel,
     taskDetail |-> newTaskDetailModel, taskForm |-> newTaskFormModel]

\* a variant that forgets the two forms
Model_isTextInputActive_NoForms(r) ==
    CASE r.view = "password" -> TRUE
      [] r.view = "secretList" -> r.secretList.searching
      [] OTHER -> FALSE

Model_isTextInputActive(r) ==
    CASE r.view = "password" -> TRUE
      [] r.view = "secretList" -> r.secretList.searching
      [] r.view = "secretForm" -> TRUE
      [] r.view = "taskForm" -> TRUE
      [] OTHER -> FALSE

\* a sub-model result lifted to the root: the sub-model stored in its field
Lift(r, fld, res) == Res([r EXCEPT ![fld] = res.s], res.w, res.cmds)

Model_updateView(r, msg, w, env) ==
    CASE r.view = "password" ->
           LET p == passwordModel_Update(r.password, msg)
           IN Res([r EXCEPT !.password = p.s], w, p.cmds)
      [] r.view = "menu" ->
           LET p == menuModel_Update(r.menu, msg)
           IN Res([r EXCEPT !.menu = p.s], w, p.cmds)
      [] r.view = "secretList" ->
           Lift(r, "secretList", secretListModel_Update(r.secretList, msg, w, env))
      [] r.view = "secretDetail" ->
           Lift(r, "secretDetail", secretDetailModel_Update(r.secretDetail, msg, w, env))
      [] r.view = "secretForm" ->
           Lift(r, "secretForm", secretFormModel_Update(r.secretForm, msg, w, env))
      [] r.view = "taskList" ->
           Lift(r, "taskList", taskListModel_Update(r.taskList, msg, w, env))
      [] r.view = "taskDetail" ->
           Lift(r, "taskDetail", taskDetailModel_Update(r.taskDetail, msg, w, env))
      [] r.view = "taskForm" ->
           Lift(r, "taskForm", taskFormModel_Update(r.taskForm, msg, w, env))
      [] OTHER -> Res(r, w, <<>>)

\* the message forwarded to the destination sub-model, which holds the handle
Model_forward(sub, fld, msg, w, env) ==
    CASE fld = "secretList" -> secretListModel_Update(sub, msg, w, env)
      [] fld = "secretDetail" -> secretDetailModel_Update(sub, msg, w, env)
      [] fld = "secretForm" -> secretFormModel_Update(sub, msg, w, env)
      [] fld = "taskList" -> taskListModel_Update(sub, msg, w, env)
      [] fld = "taskDetail" -> taskDetailModel_Update(sub, msg, w, env)
      [] OTHER -> taskFormModel_Update(sub, msg, w, env)

\* only the secret detail's command is kept
Model_forwarded(r2, fld, res) ==
    Res([r2 EXCEPT ![fld] = res.s], res.w, IF fld = "secretDetail" THEN res.cmds ELSE <<>>)

Model_entered(r, r2, msg, w, env) ==
    IF msg.view \in {"password", "menu"} THEN Res(r2, w, <<>>)
    ELSE Model_forwarded(r2, msg.view,
                         Model_forward([r2[msg.view] EXCEPT !.vault = r.vault], msg.view,
                                       msg, w, env))

\* the navigateMsg case of Update
Model_navigate(r, msg, w, env) ==
    Model_entered(r,
                  IF msg.view = "menu" /\ r.vault # NilVault
                  THEN [r EXCEPT !.view = msg.view, !.err = "",
                                 !.menu = menuModel_refreshCounts(@, r.vault, w, env)]
                  ELSE [r EXCEPT !.view = msg.view, !.err = ""],
                  msg, w, env)

\* a variant that leaves the task detail without the handle
Model_vaultOpened_SkipTaskDetail(r, msg, w, env) ==
    Res([r EXCEPT !.vault = msg.vault, !.view = "menu",
                  !.menu = menuModel_refreshCounts(@, msg.vault, w, env),
                  !.secretList.vault = msg.vault, !.secretDetail.vault = msg.vault,
                  !.secretForm.vault = msg.vault, !.taskList.vault = msg.vault,
                  !.taskForm.vault = msg.vault],
        w, <<>>)

\* a variant that takes the handle and stays in the password view
Model_vaultOpened_Locked(r, msg, w, env) ==
    Res([r EXCEPT !.vault = msg.vault,
                  !.menu = menuModel_refreshCounts(@, msg.vault, w, env),
                  !.secretList.vault = msg.vault, !.secretDetail.vault = msg.vault,
                  !.secretForm.vault = msg.vault, !.taskList.vault = msg.vault,
                  !.taskDetail.vault = msg.vault, !.taskForm.vault = msg.vault],
        w, <<>>)

\* the vaultOpenedMsg case of Update
Model_vaultOpened(r, msg, w, env) ==
    Res([r EXCEPT !.vault = msg.vault, !.view = "menu",
                  !.menu = menuModel_refreshCounts(@, msg.vault, w, env),
                  !.secretList.vault = msg.vault, !.secretDetail.vault = msg.vault,
                  !.secretForm.vault = msg.vault, !.taskList.vault = msg.vault,
                  !.taskDetail.vault = msg.vault, !.taskForm.vault = msg.vault],
        w, <<>>)

\* a variant that shows every error in the banner
Model_errMsg_Banner(r, msg, w) == Res([r EXCEPT !.err = msg.err], w, <<>>)

\* the errMsg case of Update
Model_errMsg(r, msg, w) ==
    IF r.view = "password"
    THEN LET p == passwordModel_Update(r.password, msg)
         IN Res([r EXCEPT !.password = p.s], w, p.cmds)
    ELSE Res([r EXCEPT !.err = msg.err], w, <<>>)

Model_Update(r, msg, w, env) ==
    IF msg.type = "navigate" THEN Model_navigate(r, msg, w, env)
    ELSE IF msg.type = "vaultOpened" THEN Model_vaultOpened(r, msg, w, env)
    ELSE IF msg.type = "err" THEN Model_errMsg(r, msg, w)
    ELSE IF msg.type = "key" /\ Model_isTextInputActive(r) /\ msg.key = "ctrl+c"
    THEN Res(r, w, <<QuitCmd>>)
    ELSE IF msg.type = "key" /\ ~Model_isTextInputActive(r) /\ msg.key \in KeyQuit
    THEN Res(r, w, <<QuitCmd>>)
    ELSE Model_updateView(r, msg, w, env)

\* Model.View: the active view is rendered after every Update
Model_ViewPanics(r) ==
    \/ r.view = "secretList" /\ secretListModel_ViewPanics(r.secretList)
    \/ r.view = "taskList" /\ taskListModel_ViewPanics(r.taskList)

\* one turn of the event loop: Update, then View.  A panic inside Update
\* leaves no new model; a panic inside View comes after the model was replaced.
Rendered(r, u) ==
    IF u.w.panic THEN [s |-> r, w |-> u.w, cmds |-> <<>>]
    ELSE IF Model_ViewPanics(u.s) THEN [s |-> u.s, w |-> Panic(u.w, TRUE), cmds |-> <<>>]
    ELSE u

Turn(r, msg, w, env) == Rendered(r, Model_Update(r, msg, w, env))

----------------------------------------------------------------------------
(* The vault on disk when the program starts *)

MaxClock == 2

Clock == 1..MaxClock

ta == <<"a">>
tb == <<"b">>
tc == <<"c">>

Sec(id, name, type, flds, tags) ==
    [id |-> id, name |-> name, type |-> type, fields |-> flds, tags |-> tags,
     created |-> 1, updated |-> 1]

Tsk(id, title, done, pri, due, tags) ==
    [id |-> id, title |-> title, done |-> done, priority |-> pri, due |-> due,
     tags |-> tags, created |-> 1, completedAt |-> IF done THEN 1 ELSE NoTime]

pwFields(u, p) == SetField(SetField(SetField(NoFields, "url", NoText), "username", u),
                           "password", p)

\* contents earlier runs of the program can have left in the vault
StoreTwoTags ==
    [secrets |-> <<Sec(1, <<"g">>, "password", pwFields(<<"u">>, <<"s">>), <<ta>>),
                   Sec(2, <<"n">>, "note", SetField(NoFields, "content", <<"x">>), <<tb>>)>>,
     tasks |-> <<Tsk(1, <<"x">>, FALSE, "low", NoTime, <<ta, tb>>),
                 Tsk(2, <<"y">>, TRUE, "high", 2, <<tb>>),
                 Tsk(3, <<"k">>, FALSE, "high", 1, <<tc>>)>>]

StoreOneTag ==
    [secrets |-> <<Sec(1, <<"g">>, "apikey",
                       SetField(SetField(NoFields, "service", NoText), "key", <<"k">>),
                       <<ta>>)>>,
     tasks |-> <<Tsk(1, <<"x">>, FALSE, "", 1, <<>>), Tsk(2, <<"y">>, FALSE, "", NoTime, <<ta>>)>>]

StoreNoTags ==
    [secrets |-> <<Sec(1, <<"g">>, "note", SetField(NoFields, "content", NoText), <<>>)>>,
     tasks |-> <<Tsk(1, <<"x">>, TRUE, "medium", NoTime, <<>>)>>]

StoreEmpty == [secrets |-> <<>>, tasks |-> <<>>]

InitialStores == {StoreTwoTags, StoreOneTag, StoreNoTags, StoreEmpty}

FirstFreeId == 4

\* the password of a vault that does not exist yet
NoVaultPw == <<"-">>

\* the password the user knows
UserPw == <<"a">>

WorldOf(st) == [secrets |-> st.secrets, tasks |-> st.tasks, nextId |-> FirstFreeId,
                panic |-> FALSE]

----------------------------------------------------------------------------
(* The event loop *)

Envs == {e \in [fail : FailSites, part : 0..1, now : Clock] :
             e.fail # "write" => e.part = 0}

CalmEnvs == {e \in Envs : e.fail = "none"}

AsyncCmds == {"msg", "openVault", "clipWrite", "totpTick"}

RECURSIVE SeqToBag(_)
SeqToBag(s) == IF s = <<>> THEN EmptyBag ELSE SetToBag({Head(s)}) (+) SeqToBag(Tail(s))

Running == ~quit /\ ~world.panic

NoMsg == [type |-> "init"]

\* the text inputs a key can grow
TypedTexts(r) ==
    <<r.password.password, r.password.confirm, r.secretList.search, r.taskForm.title,
      r.taskForm.due, r.taskForm.tags>>
    \o [i \in 1..Len(r.secretForm.inputs) |-> r.secretForm.inputs[i].value]

TypedOK(r0, r1) ==
    \A i \in 1..Len(TypedTexts(r1)) :
        i \in 1..Len(TypedTexts(r0)) /\ Len(TypedTexts(r1)[i]) > Len(TypedTexts(r0)[i])
            => Len(TypedTexts(r1)[i]) <= MaxText

\* One message through Update and View; the returned commands are started:
\* a clear timer is armed at once, the others are left in flight.
StartedWithin(n, t, msg, rest, armed, counts) ==
    /\ m' = t.s
    /\ world' = t.w
    /\ world'.nextId <= MaxIds + 1
    /\ quit' = \E i \in 1..Len(t.cmds) : t.cmds[i] = QuitCmd
    /\ inflight' = rest (+) SeqToBag(SelectSeq(t.cmds, LAMBDA c : c.cmd \in AsyncCmds))
    /\ BagCardinality(inflight') <= n
    /\ clearq' = armed + Len(SelectSeq(t.cmds, LAMBDA c : c.cmd = "clipClearTick"))
    /\ clip' = [counts EXCEPT !.copies =
                    @ + Len(SelectSeq(t.cmds, LAMBDA c : c.cmd = "clipWrite"))]
    /\ clip'.copies <= MaxCopies
    /\ last' = [msg |-> msg, cmds |-> t.cmds]

\* a user who waits for the commands of one key before pressing the next
Started(t, msg, rest, armed, counts) ==
    StartedWithin(MaxInflight, t, msg, rest, armed, counts)

Process(msg, env, rest, armed, counts) ==
    Started(Turn(m, msg, world, env), msg, rest, armed, counts)

\* the label of a list's filter state: the bucket, or the selected tag
secretFilterLabel(sl) ==
    IF sl.filter = filterByTag
    THEN IF sl.tagIndex < Len(sl.tags) THEN <<"tag", sl.tags[sl.tagIndex + 1]>>
         ELSE <<"tag", <<"?">>>>
    ELSE <<"bucket", sl.filter>>

taskFilterLabel(tl) ==
    IF tl.filter = taskFilterByTag
    THEN IF tl.tagIndex < Len(tl.tags) THEN <<"tag", tl.tags[tl.tagIndex + 1]>>
         ELSE <<"tag", <<"?">>>>
    ELSE <<"bucket", tl.filter>>

\* a key press that runs advanceFilter in the active list
AdvancesFilter(r, k) ==
    /\ k = "tab"
    /\ \/ r.view = "secretList" /\ ~r.secretList.confirmDelete /\ ~r.secretList.searching
       \/ r.view = "taskList" /\ r.taskList.confirm = "none"

FilterLabel(r, v) ==
    IF v = "secretList" THEN secretFilterLabel(r.secretList) ELSE taskFilterLabel(r.taskList)

\* the filter states successive advances visited since the list last left 'all'
TrailAfter(r0, k, r1) ==
    IF AdvancesFilter(r0, k) /\ r1.view = r0.view
    THEN [trail EXCEPT ![r0.view] =
             IF FilterLabel(r0, r0.view) = <<"bucket", 0>>
             THEN <<FilterLabel(r0, r0.view), FilterLabel(r1, r0.view)>>
             ELSE Append(@, FilterLabel(r1, r0.view))]
    ELSE trail

\* the state New leaves, over a vault directory that is absent (fresh) or
\* holds one of the stores S
InitOn(S, F) ==
    /\ \E st \in S, fresh \in F :
          /\ fresh => st = StoreEmpty
          /\ world = WorldOf(st)
          /\ vaultPw = IF fresh THEN NoVaultPw ELSE UserPw
          /\ m = New(fresh)
    /\ handles = 0
    /\ inflight = EmptyBag
    /\ clearq = 0
    /\ clipboard = NoText
    /\ clip = [copies |-> 0, clears |-> 0]
    /\ quit = FALSE
    /\ last = [msg |-> NoMsg, cmds |-> <<>>]
    /\ trail = [v \in {"secretList", "taskList"} |-> <<>>]

Init == InitOn(InitialStores, BOOLEAN)

\* the user presses a key the key map K offers in the active view
KeyPress(K, E) ==
    /\ Running
    /\ \E k \in K[m.view], env \in E :
          /\ Process(KeyMsg(k), env, inflight, clearq, clip)
          /\ TypedOK(m, m')
          /\ trail' = TrailAfter(m, k, m')
          /\ Len(trail'["secretList"]) <= MaxTrail /\ Len(trail'["taskList"]) <= MaxTrail
    /\ UNCHANGED <<vaultPw, handles, clipboard>>

\* a command that only returns a message has run; its message is processed
Deliver(E) ==
    /\ Running
    /\ \E c \in BagToSet(inflight), env \in E :
          /\ c.cmd = "msg"
          /\ Process(c.msg, env, inflight (-) SetToBag({c}), clearq, clip)
    /\ UNCHANGED <<vaultPw, handles, clipboard, trail>>

\* openVaultCmd has run vault.Open: a new handle, or an error
OpenVault(E) ==
    /\ Running
    /\ \E c \in BagToSet(inflight), env \in E, ok \in BOOLEAN :
          /\ c.cmd = "openVault"
          /\ ok => (vaultPw \in {NoVaultPw, c.pw} /\ handles < MaxHandles)
          /\ handles' = IF ok THEN handles + 1 ELSE handles
          /\ vaultPw' = IF ok THEN c.pw ELSE vaultPw
          /\ Process(IF ok THEN vaultOpenedMsg(handles + 1) ELSE errMsg("open store"), env,
                     inflight (-) SetToBag({c}), clearq, clip)
    /\ UNCHANGED <<clipboard, trail>>

\* the write half of copyToClipboard has run zclipboard.Copy
ClipWrite(E) ==
    /\ Running
    /\ \E c \in BagToSet(inflight), env \in E, ok \in BOOLEAN :
          /\ c.cmd = "clipWrite"
          /\ clipboard' = IF ok THEN c.val ELSE clipboard
          /\ Process(IF ok THEN clipboardCopiedMsg(c.field) ELSE errMsg("clipboard"), env,
                     inflight (-) SetToBag({c}), clearq, clip)
    /\ UNCHANGED <<vaultPw, handles, trail>>

\* a variant in which a later copy restarts the timer: only the last timer
\* clears
ClearFire_Restarted(E) ==
    /\ Running
    /\ clearq > 0
    /\ clipboard' = IF clearq > 1 THEN clipboard ELSE NoText
    /\ \E env \in E :
          Process(clipboardClearedMsg, env, inflight, clearq - 1,
                  [clip EXCEPT !.clears = @ + 1])
    /\ UNCHANGED <<vaultPw, handles, trail>>

\* a clear timer fires: zclipboard.Clear, then clipboardClearedMsg is processed
ClearFire(E) ==
    /\ Running
    /\ clearq > 0
    /\ clipboard' = NoText
    /\ \E env \in E :
          Process(clipboardClearedMsg, env, inflight, clearq - 1,
                  [clip EXCEPT !.clears = @ + 1])
    /\ UNCHANGED <<vaultPw, handles, trail>>

\* a one-second TOTP timer fires
TotpTick(E) ==
    /\ Running
    /\ \E c \in BagToSet(inflight), env \in E :
          /\ c.cmd = "totpTick"
          /\ Process(totpTickMsg, env, inflight (-) SetToBag({c}), clearq, clip)
    /\ UNCHANGED <<vaultPw, handles, clipboard, trail>>

----------------------------------------------------------------------------
(* The whole program, with a user who walks through every view *)

NoKeys == [v \in Views |-> {}]

WalkKeys ==
    [v \in Views |->
       CASE v = "password" -> {"a", "enter", "q", "ctrl+c"}
         [] v = "menu" -> {"j", "enter", "q", "ctrl+c"}
         [] v = "secretList" -> {"enter", "esc", "/", "n", "q", "ctrl+c"}
         [] v = "secretDetail" -> {"esc", "e", "q", "ctrl+c"}
         [] v = "secretForm" -> {"esc", "q", "ctrl+c"}
         [] v = "taskList" -> {"enter", "esc", "n", "q", "ctrl+c"}
         [] v = "taskDetail" -> {"esc", "e", "q", "ctrl+c"}
         [] OTHER -> {"esc", "q", "ctrl+c"}]

Walk == KeyPress(WalkKeys, CalmEnvs)

Arrive == Deliver(CalmEnvs)

Unlock == OpenVault(CalmEnvs)

Next == Walk \/ Arrive \/ Unlock

Spec == InitOn({StoreOneTag, StoreEmpty}, BOOLEAN) /\ [][Next]_vars

----------------------------------------------------------------------------
(* Properties of the root model *)

HasQuit(cmds) == \E i \in 1..Len(cmds) : cmds[i] = QuitCmd

\* the views the claim lists as having no focused free-text field
NoFreeText(r) ==
    \/ r.view \in {"menu", "secretDetail", "taskList", "taskDetail"}
    \/ r.view = "secretList" /\ ~r.secretList.searching

\* C2: in every running state, whatever the store does, pressing 'q' returns
\* tea.Quit exactly when the active view is Menu, SecretDetail, TaskList,
\* TaskDetail or SecretList outside search mode, and pressing ctrl+c returns
\* tea.Quit in every view.
C2_QuitKeys ==
    Running =>
      \A env \in Envs :
         /\ HasQuit(Turn(m, KeyMsg("q"), world, env).cmds) <=> NoFreeText(m)
         /\ HasQuit(Turn(m, KeyMsg("ctrl+c"), world, env).cmds)

\* 'q' has ended the program from the task detail view
C2_Witness == quit /\ last.msg = KeyMsg("q") /\ m.view = "taskDetail"

SubModels == {"secretList", "secretDetail", "secretForm", "taskList", "taskDetail",
              "taskForm"}

PendingCount(w) == Cardinality({i \in 1..Len(w.tasks) : ~w.tasks[i].done})

\* C3: in every running state, processing a vault-ready message for any
\* handle h leaves the root holding h, the view Menu, all six list, detail
\* and form sub-models holding h, and each Menu count equal to the store's
\* count unless the store call that reads it failed.
C3_VaultReady ==
    Running =>
      \A h \in 1..(MaxHandles + 1), env \in Envs :
         LET t == Turn(m, vaultOpenedMsg(h), world, env)
         IN /\ ~t.w.panic
            /\ t.s.vault = h
            /\ t.s.view = "menu"
            /\ \A f \in SubModels : t.s[f].vault = h
            /\ env.fail # "list" => t.s.menu.secretCount = Len(world.secrets)
            /\ env.fail # "count" => t.s.menu.pendingCount = PendingCount(world)

\* a vault-ready message was processed over a store with a secret and
\* pending tasks
C3_Witness ==
    /\ last.msg.type = "vaultOpened"
    /\ m.view = "menu" /\ m.vault = 1 /\ m.taskDetail.vault = 1
    /\ m.menu.secretCount = 1 /\ m.menu.pendingCount = 2

----------------------------------------------------------------------------
(* The Unlock view, with a user who types, moves between the fields and submits *)

UnlockKeys ==
    [v \in Views |-> IF v = "password" THEN {"a", "b", "enter", "tab", "backspace"} ELSE {}]

Type == KeyPress(UnlockKeys, CalmEnvs)

Open == OpenVault(CalmEnvs)

NextUnlock == Type \/ Open

SpecUnlock == InitOn({StoreOneTag, StoreEmpty}, BOOLEAN) /\ [][NextUnlock]_vars

\* every key a user of the Unlock view can press
AnyUnlockKey == {"a", "b", "enter", "tab", "shift+tab", "backspace", "esc", " ", "q", "ctrl+s"}

OpensVault(cmds) == \E i \in 1..Len(cmds) : cmds[i].cmd = "openVault"

\* the submits the claim allows to open the vault
MaySubmit(p) ==
    /\ p.password # NoText
    /\ p.firstRun => (p.focused = "confirm" /\ p.confirm = p.password)

\* C4: in the Unlock view, whatever key is pressed, an open-vault command is
\* issued exactly when the key is Enter, the password is non-empty and, in
\* first-run mode, the focus is on the confirm field and confirm equals
\* password; the command carries the typed password, it is the only command,
\* and no key of the Unlock view touches the store.
C4_UnlockSubmit ==
    (Running /\ m.view = "password") =>
      \A k \in AnyUnlockKey, env \in Envs :
         LET t == Turn(m, KeyMsg(k), world, env)
         IN /\ t.w = world
            /\ OpensVault(t.cmds) <=> (k \in KeyEnter /\ MaySubmit(m.password))
            /\ OpensVault(t.cmds) => t.cmds = <<openVaultCmd(m.password.password)>>

\* a first-run submit on a matching confirmation issued the open call
C4_Witness ==
    /\ last.msg = KeyMsg("enter")
    /\ last.cmds = <<openVaultCmd(<<"a">>)>>
    /\ m.view = "password" /\ m.password.firstRun /\ m.password.focused = "confirm"
    /\ m.password.confirm = <<"a">>

\* a first-run submit on a mismatching confirmation was refused
C4_Refused ==
    /\ last.msg = KeyMsg("enter") /\ last.cmds = <<>>
    /\ m.password.firstRun /\ m.password.err = "passwords do not match"
    /\ m.password.password = <<"a">> /\ m.password.confirm = NoText

----------------------------------------------------------------------------
(* The two lists, with a user who only cycles the filter and moves between
   the lists; the records never change *)

FilterKeys ==
    [v \in Views |->
       CASE v = "password" -> {"a", "enter"}
         [] v = "menu" -> {"j", "enter"}
         [] v \in {"secretList", "taskList"} -> {"tab", "esc"}
         [] OTHER -> {}]

Cycle == KeyPress(FilterKeys, CalmEnvs)

Shown == Deliver(CalmEnvs)

Opened == OpenVault(CalmEnvs)

NextFilter == Cycle \/ Shown \/ Opened

SpecFilter == InitOn(InitialStores, {FALSE}) /\ [][NextFilter]_vars

\* the ordinary buckets after 'all': 4 for secrets, 2 for tasks
BucketCount(v) == IF v = "secretList" THEN filterByTag - 1 ELSE taskFilterByTag - 1

RecordsOf(v) == IF v = "secretList" THEN world.secrets ELSE world.tasks

\* the j-th smallest element of a set of texts
IsNth(S, t, j) == t \in S /\ Cardinality({u \in S : TextLess(u, t)}) = j - 1

\* position i of the cycle over N buckets and the tag set S
CycleAt(lbl, i, N, S) ==
    IF i = 1 \/ i = N + Cardinality(S) + 2 THEN lbl[1] = "bucket" /\ lbl[2] = 0
    ELSE IF i <= N + 1 THEN lbl[1] = "bucket" /\ lbl[2] = i - 1
    ELSE lbl[1] = "tag" /\ IsNth(S, lbl[2], i - N - 1)

\* C8: the filter states visited by successive advances since a list last
\* showed 'all' follow the cycle: 'all', the N ordinary buckets in declared
\* order, the K distinct tags of the records in ascending order, 'all'; so the
\* first return to 'all' comes after exactly N+1+K advances (N+1 when K=0).
C8_FilterCycle ==
    \A v \in {"secretList", "taskList"} :
       LET tr == trail[v]
           N == BucketCount(v)
           S == TagSetOf(RecordsOf(v))
       IN /\ Len(tr) <= N + Cardinality(S) + 2
          /\ \A i \in 1..Len(tr) : CycleAt(tr[i], i, N, S)

\* the secret list went once round the cycle over two tags: 4+1+2 advances
C8_Witness ==
    /\ Cardinality(TagSetOf(world.secrets)) = 2
    /\ Len(trail["secretList"]) = 8
    /\ trail["secretList"][6] = <<"tag", ta>> /\ trail["secretList"][7] = <<"tag", tb>>
    /\ m.secretList.filter = filterAll
    /\ last.msg = KeyMsg("tab")

\* the task list went once round the cycle without tags: 2+1 advances
C8_WitnessNoTags ==
    /\ TagSetOf(world.tasks) = {} /\ Len(world.tasks) > 0
    /\ Len(trail["taskList"]) = 4
    /\ m.taskList.filter = taskFilterAll

----------------------------------------------------------------------------
(* The secret detail view, with a user who copies fields and walks away, a
   clipboard that can refuse the write, and clear timers that do fire *)

ClipKeys ==
    [v \in Views |->
       CASE v = "password" -> {"a", "enter"}
         [] v = "menu" -> {"enter"}
         [] v = "secretList" -> {"enter", "esc"}
         [] v = "secretDetail" -> {"j", "enter", "esc"}
         [] OTHER -> {}]

Copy == KeyPress(ClipKeys, CalmEnvs)

Routed == Deliver(CalmEnvs)

Ready == OpenVault(CalmEnvs)

Written == ClipWrite(CalmEnvs)

Cleared == ClearFire(CalmEnvs)

NextClip == Copy \/ Routed \/ Ready \/ Written \/ Cleared

SpecClip ==
    /\ InitOn({StoreOneTag, StoreTwoTags}, {FALSE})
    /\ [][NextClip]_vars
    /\ WF_vars(Cleared)

\* the Copy commands a processed message issued
CopyCmds(cmds) == Len(SelectSeq(cmds, LAMBDA c : c.cmd = "clipWrite"))

\* every step arms one clear timer per Copy it issued, a failed or successful
\* write arms and disarms none, and only a firing timer takes one away
ArmsOnePerCopy ==
    clearq' = clearq + CopyCmds(last'.cmds)
                - (IF clip'.clears > clip.clears THEN 1 ELSE 0)

\* a firing timer empties the clipboard and delivers one 'cleared' notification
FiringClears ==
    clip'.clears > clip.clears =>
        /\ clip'.clears = clip.clears + 1
        /\ clipboard' = NoText
        /\ last'.msg = clipboardClearedMsg

\* C6: every Copy arms exactly one clear timer whether or not the write
\* succeeds; a firing timer clears the clipboard and emits one 'cleared'
\* notification; and while the program runs and timers are delivered fairly,
\* the n-th Copy is eventually followed by the n-th clear.
C6_ClearTimer ==
    /\ [](clearq = clip.copies - clip.clears)
    /\ [][ArmsOnePerCopy /\ FiringClears]_vars
    /\ \A n \in 1..(MaxCopies + 1) :
          (clip.copies >= n) ~> (clip.clears >= n \/ ~Running)

\* a Copy whose write the clipboard refused was cleared after the user had
\* left the secret detail view
C6_Witness ==
    /\ clip.copies = 1 /\ clip.clears = 1 /\ clearq = 0
    /\ clipboard = NoText
    /\ last.msg = clipboardClearedMsg
    /\ m.view = "secretList"
    /\ m.secretDetail.clipboardMsg = <<>>
    /\ inflight = EmptyBag

----------------------------------------------------------------------------
(* The secret list and detail views, with a user who filters, opens and
   deletes secrets, over a store whose Get can fail *)

SecretKeys ==
    [v \in Views |->
       CASE v = "password" -> {"a", "enter"}
         [] v = "menu" -> {"enter"}
         [] v = "secretList" -> {"tab", "j", "enter", "d", "y"}
         [] v = "secretDetail" -> {"d", "y", "esc"}
         [] OTHER -> {}]

GetFailEnvs == {e \in Envs : e.fail \in {"none", "get"}}

Browse == KeyPress(SecretKeys, CalmEnvs)

Land == Deliver(GetFailEnvs)

Enter == OpenVault(CalmEnvs)

NextSecrets == Browse \/ Land \/ Enter

SpecSecrets == InitOn({StoreTwoTags}, {FALSE}) /\ [][NextSecrets]_vars

\* the destination sub-model has initialised from the payload
Initialised(r, w, v, d) ==
    CASE v = "secretList" ->
           ~r.secretList.confirmDelete /\ r.secretList.status = ""
      [] v = "secretDetail" ->
           d.kind = "id" =>
             /\ r.secretDetail.secretID = d.id
             /\ r.secretDetail.cursor = 0 /\ ~r.secretDetail.confirmDelete
             /\ HasId(w.secrets, d.id) => r.secretDetail.secret = colGet(w.secrets, d.id)
      [] v = "secretForm" ->
           IF d.kind = "id" THEN r.secretForm.mode = "edit" /\ r.secretForm.editID = d.id
           ELSE r.secretForm.mode = "create"
      [] v = "taskList" -> r.taskList.confirm = "none"
      [] v = "taskDetail" ->
           (d.kind = "id" /\ HasId(w.tasks, d.id)) =>
               r.taskDetail.loaded /\ r.taskDetail.task = colGet(w.tasks, d.id)
      [] v = "taskForm" ->
           r.taskForm.editing = (IF d.kind = "task" THEN d.task ELSE NoTask)
      [] OTHER -> TRUE

\* C1: whenever a navigate message is waiting to be processed, processing
\* it (with every store call succeeding) completes, sets the active view to
\* the message's view, clears the root error, leaves the destination
\* sub-model initialised from the payload and, when the view is Menu,
\* leaves the Menu counts equal to the store's.
C1_Navigate ==
    Running =>
      \A c \in BagToSet(inflight), env \in CalmEnvs :
         (c.cmd = "msg" /\ c.msg.type = "navigate") =>
            LET t == Turn(m, c.msg, world, env)
            IN /\ ~t.w.panic
               /\ t.s.view = c.msg.view
               /\ t.s.err = ""
               /\ c.msg.view \notin {"password", "menu"} =>
                      t.s[c.msg.view].vault = m.vault
               /\ Initialised(t.s, world, c.msg.view, c.msg.data)
               /\ c.msg.view = "menu" =>
                      /\ t.s.menu.secretCount = Len(world.secrets)
                      /\ t.s.menu.pendingCount = PendingCount(world)

\* the secret list shows the only secret tagged 'b' under the tag filter 'b';
\* the detail view has deleted it, and its navigate message is waiting
C1_Stranded ==
    /\ Running /\ m.view = "secretDetail" /\ m.secretDetail.secretID = 2
    /\ BagToSet(inflight) = {MsgCmd(navigateMsg("secretList", NoData))}
    /\ m.secretList.filter = filterByTag /\ m.secretList.tagIndex = 1
    /\ m.secretList.tags = <<ta, tb>>
    /\ Len(m.secretList.secrets) = 1 /\ m.secretList.secrets[1].id = 2
    /\ TagSetOf(world.secrets) = {ta}

----------------------------------------------------------------------------
(* Delete confirmations *)

DeleteArmed(r) ==
    \/ r.view = "secretList" /\ r.secretList.confirmDelete
    \/ r.view = "secretDetail" /\ r.secretDetail.confirmDelete
    \/ r.view = "taskList" /\ r.taskList.confirm = "delete"
    \/ r.view = "taskDetail" /\ r.taskDetail.confirm = "delete"

\* the id of the row under the cursor of a list
RowId(recs, cursor) == IF cursor < Len(recs) THEN recs[cursor + 1].id ELSE NoId

\* the record the active view selects or displays; a detail view that has
\* displayed nothing yet stands for the record it was asked to show
ShownId(r) ==
    CASE r.view = "secretList" -> RowId(r.secretList.secrets, r.secretList.cursor)
      [] r.view = "secretDetail" ->
           IF r.secretDetail.secret = NoSecret THEN r.secretDetail.secretID
           ELSE r.secretDetail.secret.id
      [] r.view = "taskList" -> RowId(r.taskList.tasks, r.taskList.cursor)
      [] r.view = "taskDetail" -> r.taskDetail.task.id
      [] OTHER -> NoId

CursorOf(r) ==
    CASE r.view = "secretList" -> r.secretList.cursor
      [] r.view = "secretDetail" -> r.secretDetail.cursor
      [] r.view = "taskList" -> r.taskList.cursor
      [] OTHER -> 0

SameStore(w0, w1) == w1.secrets = w0.secrets /\ w1.tasks = w0.tasks

\* the store lost the record id of the active view's collection, and nothing
\* else; a record that is already gone leaves nothing to delete
LostOnly(w0, w1, view, id) ==
    IF view \in {"secretList", "secretDetail"}
    THEN w1.secrets = colDelete(w0.secrets, id) /\ w1.tasks = w0.tasks
    ELSE w1.tasks = colDelete(w0.tasks, id) /\ w1.secrets = w0.secrets

\* the keys a user can press at a confirmation prompt
PromptKeys == {"y", "n", "esc", "j", "k", "d", "x", "e", "s", " ", "enter", "tab", "q"}

\* C5: while a delete confirmation is armed in a list or detail view (and
\* the store calls succeed), 'y' deletes from the store exactly the record the
\* view selects or displays and disarms; 'n' and Esc disarm and leave the
\* store unchanged; every other key leaves the confirmation armed and the
\* store, the cursor and the active view unchanged.
C5_DeleteConfirm ==
    (Running /\ DeleteArmed(m)) =>
      \A k \in PromptKeys, env \in CalmEnvs :
         LET t == Turn(m, KeyMsg(k), world, env)
         IN /\ ~t.w.panic
            /\ CASE k = "y" ->
                       LostOnly(world, t.w, m.view, ShownId(m)) /\ ~DeleteArmed(t.s)
                 [] k \in {"n", "esc"} ->
                       SameStore(world, t.w) /\ ~DeleteArmed(t.s)
                 [] OTHER ->
                       /\ SameStore(world, t.w) /\ DeleteArmed(t.s)
                       /\ CursorOf(t.s) = CursorOf(m) /\ t.s.view = m.view

\* the secret list asks to confirm the deletion of the only secret tagged
\* 'b', shown under the tag filter 'b'
C5_LastTagged ==
    /\ Running /\ m.view = "secretList" /\ m.secretList.confirmDelete
    /\ m.secretList.filter = filterByTag /\ m.secretList.tagIndex = 1
    /\ m.secretList.tags = <<ta, tb>>
    /\ ShownId(m) = 2 /\ Len(world.secrets) = 2

\* the secret detail asks to confirm a deletion while it displays secret 1
\* and holds the id of secret 2, whose Get failed
C5_StaleDisplay ==
    /\ Running /\ m.view = "secretDetail" /\ m.secretDetail.confirmDelete
    /\ m.secretDetail.secret.id = 1 /\ m.secretDetail.secretID = 2
    /\ Len(world.secrets) = 2

----------------------------------------------------------------------------
(* The task views over a store whose List and write calls can fail *)

TaskKeys ==
    [v \in Views |->
       CASE v = "password" -> {"a", "enter"}
         [] v = "menu" -> {"j", "enter"}
         [] v = "taskList" -> {"tab", "j", " ", "d", "y"}
         [] OTHER -> {}]

StoreFailEnvs ==
    {e \in Envs : e.fail \in {"none", "list", "write"} /\ e.part = 0 /\ e.now = MaxClock}

\* what the history keeps of a key whose name is not recorded
SomeKey == [type |-> "key", key |-> "?"]

\* a key press of which the history records neither the key nor the filter
\* label
Stroke(K, E) ==
    /\ Running
    /\ \E k \in K[m.view], env \in E :
          /\ Started(Turn(m, KeyMsg(k), world, env), SomeKey, inflight, clearq, clip)
          /\ TypedOK(m, m')
    /\ UNCHANGED <<vaultPw, handles, clipboard, trail>>

Work == Stroke(TaskKeys, StoreFailEnvs)

Settle == Deliver(StoreFailEnvs)

Unseal == OpenVault(CalmEnvs)

NextTasks == Work \/ Settle \/ Unseal

SpecTasks == InitOn({StoreTwoTags}, {FALSE}) /\ [][NextTasks]_vars

CursorBounded(cursor, held) == 0 <= cursor /\ cursor <= Max(0, Len(held) - 1)

\* the keys that act on the selected row
RowKeys == {"enter", " ", "d"}

\* a key changed nothing but the model it was sent to: no command, no
\* confirmation, the store untouched
NoOp(t, w) == t.cmds = <<>> /\ ~DeleteArmed(t.s) /\ SameStore(w, t.w) /\ ~t.w.panic

\* C7: in both lists the cursor stays within 0 .. max(0, len(held) - 1) after
\* every processed message, reloads that shrink the list and failed reloads
\* included; over an empty held slice Enter, toggle and delete emit no
\* command, arm no confirmation and leave the store untouched.
C7_CursorBounds ==
    /\ CursorBounded(m.secretList.cursor, m.secretList.secrets)
    /\ CursorBounded(m.taskList.cursor, m.taskList.tasks)
    /\ (Running /\ m.view = "taskList" /\ m.taskList.tasks = <<>>) =>
          \A k \in RowKeys, env \in Envs : NoOp(Turn(m, KeyMsg(k), world, env), world)
    /\ (Running /\ m.view = "secretList" /\ m.secretList.secrets = <<>>
        /\ ~m.secretList.searching) =>
          \A k \in RowKeys, env \in Envs : NoOp(Turn(m, KeyMsg(k), world, env), world)

\* the task list holds nothing after a reload whose List call failed, with
\* the cursor still on the second row
C7_FailedReload ==
    /\ Running /\ m.view = "taskList" /\ m.taskList.tasks = <<>>
    /\ m.taskList.cursor = 1 /\ Len(world.tasks) = 3

\* the task list is empty because the last task was deleted
C7_Emptied ==
    /\ Running /\ m.view = "taskList" /\ m.taskList.tasks = <<>>
    /\ m.taskList.cursor = 0 /\ world.tasks = <<>>

\* the rank the order gives a priority: high > medium > low > none
Urgency(p) == CASE p = "high" -> 3 [] p = "medium" -> 2 [] p = "low" -> 1 [] OTHER -> 0

\* a must come before b: pending before done, then the higher priority,
\* then the earlier due date, any due date before none
Precedes(a, b) ==
    IF a.done # b.done THEN b.done
    ELSE IF Urgency(a.priority) # Urgency(b.priority)
    THEN Urgency(a.priority) > Urgency(b.priority)
    ELSE IF a.due = NoTime \/ b.due = NoTime THEN a.due # NoTime /\ b.due = NoTime
    ELSE a.due < b.due

\* held is the matching tasks of the store in the order the claim gives
SortedMatches(held, tks, f) ==
    /\ SeqToBag(held) = SeqToBag(TaskStore_List(tks, f))
    /\ \A i, j \in 1..Len(held) :
          i < j => /\ ~Precedes(held[j], held[i])
                   /\ Precedes(held[i], held[j])
                      \/ IndexOfId(tks, held[i].id) < IndexOfId(tks, held[j].id)

\* the messages on which the task list reloads from the store
Reloads(r, msg) ==
    \/ msg.type = "navigate" /\ msg.view = "taskList" /\ r.vault # NilVault
    \/ /\ msg.type = "key" /\ r.view = "taskList"
       /\ IF r.taskList.confirm # "none"
          THEN msg.key = "y" /\ (r.taskList.confirm = "delete" => r.taskList.tasks # <<>>)
          ELSE msg.key \in KeyTab \/ (msg.key = " " /\ r.taskList.tasks # <<>>)

ReloadMsgs ==
    {navigateMsg("taskList", NoData)} \cup {KeyMsg(k) : k \in {"tab", " ", "y"}}

\* C9: after every reload (whose store calls succeed) the held task slice
\* is a permutation of the store's tasks matching the active filter, pending
\* before done, then by priority high > medium > low > none, then by due
\* date ascending with no due date last, ties in the store's order.
C9_SortedReload ==
    Running =>
      \A msg \in ReloadMsgs, env \in CalmEnvs :
         LET t == Turn(m, msg, world, env)
         IN (Reloads(m, msg) /\ ~t.w.panic) =>
               SortedMatches(t.s.taskList.tasks, t.w.tasks,
                             taskListModel_taskFilter(t.s.taskList))

\* the task list asks to confirm the deletion of the only task tagged 'a',
\* shown under the tag filter 'a', while tasks tagged 'b' and 'c' exist
C9_LastOfTag ==
    /\ Running /\ m.view = "taskList" /\ m.taskList.confirm = "delete"
    /\ m.taskList.filter = taskFilterByTag /\ m.taskList.tagIndex = 0
    /\ m.taskList.tags = <<ta, tb, tc>>
    /\ Len(m.taskList.tasks) = 1 /\ m.taskList.tasks[1].id = 1
    /\ Len(world.tasks) = 3

\* the task list shows the tag filter 'b' over an empty list while the
\* store holds a task tagged 'b'
C9_WrongTag ==
    /\ Running /\ m.view = "taskList" /\ m.taskList.tasks = <<>>
    /\ m.taskList.filter = taskFilterByTag /\ m.taskList.tagIndex = 0
    /\ m.taskList.tags = <<tb, tc>>
    /\ \E i \in 1..Len(world.tasks) : world.tasks[i].tags = <<tb>>
    /\ last.cmds = <<>> /\ m.err = ""

----------------------------------------------------------------------------
(* Toggling tasks from the list and from the detail view *)

ToggleKeys ==
    [v \in Views |->
       CASE v = "password" -> {"a", "enter"}
         [] v = "menu" -> {"j", "enter"}
         [] v = "taskList" -> {"j", " ", "enter", "d", "y"}
         [] v = "taskDetail" -> {" ", "esc"}
         [] OTHER -> {}]

WriteFailEnvs == {e \in StoreFailEnvs : e.fail # "list"}

Tick == Stroke(ToggleKeys, WriteFailEnvs)

Show == Deliver(CalmEnvs)

Unbar == OpenVault(CalmEnvs)

NextToggle == Tick \/ Show \/ Unbar

SpecToggle == InitOn({StoreTwoTags}, {FALSE}) /\ [][NextToggle]_vars

Stamped(tks) == \A i \in 1..Len(tks) : (tks[i].completedAt # NoTime) <=> tks[i].done

\* the task a toggle key acts on: the row under the cursor of the list, the
\* displayed task of the detail view
ToggleTarget(r) ==
    CASE r.view = "taskList" /\ r.taskList.confirm = "none" ->
             RowId(r.taskList.tasks, r.taskList.cursor)
      [] r.view = "taskDetail" /\ r.taskDetail.confirm = "none" /\ r.taskDetail.loaded ->
             r.taskDetail.task.id
      [] OTHER -> NoId

\* the stored tasks differ in the done flag of task id and in no other
\* task's done flag
FlipsOnly(tks0, tks1, id) ==
    /\ Len(tks1) = Len(tks0)
    /\ \A i \in 1..Len(tks0) :
          /\ tks1[i].id = tks0[i].id
          /\ tks1[i].done = IF tks0[i].id = id THEN ~tks0[i].done ELSE tks0[i].done

\* C10: every stored task has a completion timestamp exactly when it is
\* done, after any sequence of toggles and deletions from the list and the
\* detail view, and a toggle (whose store call succeeds) flips the stored
\* done flag of the selected task and of no other.
C10_ToggleStamp ==
    /\ Stamped(world.tasks)
    /\ (Running /\ ToggleTarget(m) # NoId /\ HasId(world.tasks, ToggleTarget(m))) =>
          \A env \in CalmEnvs :
             FlipsOnly(world.tasks, Turn(m, KeyMsg(" "), world, env).w.tasks, ToggleTarget(m))

\* the detail view displays task 1 as done after a toggle whose store call
\* failed, while the store holds it as pending
C10_Unsaved ==
    /\ Running /\ m.view = "taskDetail" /\ m.taskDetail.loaded
    /\ m.taskDetail.task.id = 1 /\ m.taskDetail.task.done
    /\ ~colGet(world.tasks, 1).done
    /\ m.err # ""

\* a task toggled done from the list and back from the detail view
C10_Toggled ==
    /\ Running /\ m.view = "taskDetail" /\ m.taskDetail.loaded
    /\ m.taskDetail.task.id = 3 /\ ~m.taskDetail.task.done
    /\ colGet(world.tasks, 3) = m.taskDetail.task
    /\ \E i \in 1..Len(world.tasks) : world.tasks[i].id = 1 /\ world.tasks[i].completedAt = MaxClock

----------------------------------------------------------------------------
(* The secret form, with a user who creates and edits a secret, fills at
   most MaxFilled fields and saves or walks away *)

MaxFilled == 1

FormKeys ==
    [v \in Views |->
       CASE v = "password" -> {"a", "enter"}
         [] v = "menu" -> {"enter"}
         [] v = "secretList" -> {"n", "enter"}
         [] v = "secretDetail" -> {"e"}
         [] v = "secretForm" -> {"a", " ", "backspace", "tab", "enter", "ctrl+s", "esc"}
         [] OTHER -> {}]

\* the answers the user gives to a confirmation
AnswerKeys == [v \in Views |-> {"y", "esc"}]

Filled(inputs) == Cardinality({i \in 1..Len(inputs) : inputs[i].value # NoText})

\* one clock reading, the store calls all succeeding
SteadyEnvs == {e \in CalmEnvs : e.now = MaxClock}

Fill == Stroke(FormKeys, SteadyEnvs) /\ Filled(m'.secretForm.inputs) <= MaxFilled

Answer == m.secretForm.confirmDiscard /\ Stroke(AnswerKeys, SteadyEnvs)

Reach == Deliver(SteadyEnvs)

Admit == OpenVault(SteadyEnvs)

NextForm == Fill \/ Answer \/ Reach \/ Admit

SpecForm == InitOn({StoreNoTags}, {FALSE}) /\ [][NextForm]_vars

\* the keys that save in the state sf: the save key, and Enter on the last
\* field
SaveKeys(sf) ==
    {"ctrl+s"} \cup (IF sf.focused = Len(sf.inputs) - 1 THEN {"enter"} ELSE {})

NavigatesTo(cmds, v) == cmds = <<MsgCmd(navigateMsg(v, NoData))>>

\* secs1 is secs0 with one record added at the end, named name
AddedOne(secs0, secs1, name) ==
    /\ Len(secs1) = Len(secs0) + 1
    /\ SubSeq(secs1, 1, Len(secs0)) = secs0
    /\ secs1[Len(secs1)].name = name
    /\ ~HasId(secs0, secs1[Len(secs1)].id)

\* secs1 is secs0 with the record id replaced by one named name
UpdatedOne(secs0, secs1, id, name) ==
    /\ Len(secs1) = Len(secs0)
    /\ \A i \in 1..Len(secs0) :
          IF secs0[i].id = id THEN secs1[i].id = id /\ secs1[i].name = name
          ELSE secs1[i] = secs0[i]

WriteEnvs == {e \in Envs : e.fail \in {"none", "write"}}

\* the outcome of a save with the trimmed name, its reads succeeding
SavedOnce(r, t, env, name) ==
    IF name = NoText
    THEN t.s.secretForm.err # "" /\ SameStore(world, t.w) /\ t.cmds = <<>>
    ELSE IF Fails(env, "write")
    THEN t.s.secretForm.err # "" /\ SameStore(world, t.w) /\ t.cmds = <<>>
    ELSE /\ NavigatesTo(t.cmds, "secretList")
         /\ t.w.tasks = world.tasks
         /\ IF r.secretForm.mode = "create"
            THEN AddedOne(world.secrets, t.w.secrets, name)
            ELSE UpdatedOne(world.secrets, t.w.secrets, r.secretForm.editID, name)

Saving(r) == Running /\ r.view = "secretForm" /\ ~r.secretForm.confirmDiscard

\* C11 as stated: a save with an empty trimmed name sets the inline error,
\* writes nothing and does not navigate; with a non-empty trimmed name it
\* makes one store write (Add or Update) and navigates to the secret list
\* only if the write succeeds -- whether or not the record can be read back.
C11_SaveAsStated ==
    Saving(m) =>
      \A k \in SaveKeys(m.secretForm), env \in Envs :
         env.fail \in {"none", "write", "get"} =>
            SavedOnce(m, Turn(m, KeyMsg(k), world, env), env,
                      TrimSpace(formValue(m.secretForm.inputs, "name")))

\* C11: a save with an empty trimmed name sets the inline error, writes
\* nothing and does not navigate; with a non-empty trimmed name it makes one
\* store write (Add in create mode; Update in edit mode, when the record can
\* be read back from the store) and navigates to the secret list only if
\* the write succeeds; an edit-mode save whose read fails sets the inline
\* error, writes nothing and does not navigate.
C11_Save ==
    Saving(m) =>
      \A k \in SaveKeys(m.secretForm), env \in Envs :
         LET t == Turn(m, KeyMsg(k), world, env)
             name == TrimSpace(formValue(m.secretForm.inputs, "name"))
             unread == m.secretForm.mode = "edit"
                       /\ (Fails(env, "get") \/ ~HasId(world.secrets, m.secretForm.editID))
         IN /\ (env \in WriteEnvs /\ ~unread) => SavedOnce(m, t, env, name)
            /\ (env.fail \in {"none", "write", "get"} /\ unread /\ name # NoText) =>
                  t.s.secretForm.err # "" /\ SameStore(world, t.w) /\ t.cmds = <<>>

\* the form in create mode holds a name of spaces only
C11_BlankName ==
    /\ Saving(m) /\ m.secretForm.mode = "create"
    /\ formValue(m.secretForm.inputs, "name") = <<" ">>
    /\ m.secretForm.err # ""

\* a secret created by the form has reached the store
C11_Witness ==
    /\ Running /\ m.view = "secretList" /\ Len(world.secrets) = 2
    /\ world.secrets[2].name = <<"a">> /\ world.secrets[2].type = "password"
    /\ Len(m.secretList.secrets) = 2

\* the form edits secret 1 with a changed name, about to be saved
C11_Editing ==
    /\ Saving(m) /\ m.secretForm.mode = "edit" /\ m.secretForm.editID = 1
    /\ formValue(m.secretForm.inputs, "name") = <<"a">>

\* every field key a secret form can hold
FieldKeys ==
    {"name", "url", "username", "password", "totp_secret", "notes", "service", "key",
     "label", "private_key", "public_key", "passphrase", "content", "tags"}

\* the field values of the form, by field key
ValuesOf(sf) == [k \in FieldKeys |-> formValue(sf.inputs, k)]

\* the keys a user can press in the form
FormProbeKeys ==
    {"a", " ", "backspace", "tab", "shift+tab", "enter", "left", "right", "esc", "y", "n"}

\* C12: in the secret form a key sets the dirty flag exactly when it edits a
\* field value (a form just initialised is clean); Esc arms the discard
\* confirmation if the form is dirty and otherwise navigates to the secret
\* list at once; while the confirmation is armed 'y' navigates to the list
\* without a store call and 'n'/Esc disarm it with every field value
\* unchanged.
C12_DirtyDiscard ==
    (Running /\ m.view = "secretForm") =>
      \A k \in FormProbeKeys, env \in CalmEnvs :
         LET t == Turn(m, KeyMsg(k), world, env)
             sf == m.secretForm
             tf == t.s.secretForm
         IN IF sf.confirmDiscard
            THEN CASE k = "y" -> /\ NavigatesTo(t.cmds, "secretList")
                                 /\ SameStore(world, t.w) /\ ~tf.confirmDiscard
                   [] k \in {"n", "esc"} -> /\ ~tf.confirmDiscard /\ t.cmds = <<>>
                                            /\ ValuesOf(tf) = ValuesOf(sf)
                                            /\ SameStore(world, t.w)
                   [] OTHER -> TRUE
            ELSE IF k = "esc"
            THEN /\ SameStore(world, t.w)
                 /\ IF sf.changed THEN tf.confirmDiscard /\ t.cmds = <<>>
                    ELSE ~tf.confirmDiscard /\ NavigatesTo(t.cmds, "secretList")
            ELSE IF k \in SaveKeys(sf) THEN TRUE
            ELSE tf.changed <=> (sf.changed \/ ValuesOf(tf) # ValuesOf(sf))

\* the create form asks to confirm a discard while every field is empty
C12_NothingToDiscard ==
    /\ Running /\ m.view = "secretForm" /\ m.secretForm.mode = "create"
    /\ m.secretForm.confirmDiscard /\ Filled(m.secretForm.inputs) = 0

\* the form was left through a confirmed discard, the store as it was
C12_Discarded ==
    /\ Running /\ m.view = "secretForm" /\ ~m.secretForm.confirmDiscard
    /\ m.secretForm.changed /\ formValue(m.secretForm.inputs, "name") = <<"a">>
    /\ NavigatesTo(last.cmds, "secretList") /\ Len(world.secrets) = 1

----------------------------------------------------------------------------
(* Editing stored secrets, with reads that can fail *)

EditKeys ==
    [v \in Views |->
       CASE v = "password" -> {"a", "enter"}
         [] v = "menu" -> {"enter"}
         [] v = "secretList" -> {"j", "enter"}
         [] v = "secretDetail" -> {"e"}
         [] v = "secretForm" -> {"a", "backspace", "ctrl+s", "esc"}
         [] OTHER -> {}]

Revise == Stroke(EditKeys, SteadyEnvs)

Fetch == Deliver({e \in GetFailEnvs : e.now = MaxClock})

Unlatch == OpenVault(SteadyEnvs)

NextEdit == Revise \/ Fetch \/ Unlatch

SpecEdit == InitOn({StoreTwoTags}, {FALSE}) /\ [][NextEdit]_vars

\* the identity of a stored secret: what no operation may change
IdentityOf(s) == [id |-> s.id, type |-> s.type, created |-> s.created]

\* every secret of secs0 that secs1 still holds has kept its identity
KeepsIdentity(secs0, secs1) ==
    \A i \in 1..Len(secs0), j \in 1..Len(secs1) :
        secs0[i].id = secs1[j].id => IdentityOf(secs0[i]) = IdentityOf(secs1[j])

UniqueIds(secs) == \A i, j \in 1..Len(secs) : secs[i].id = secs[j].id => i = j

\* the form edits a stored secret and holds a name
EditSaving(r, w) ==
    /\ Saving(r) /\ r.secretForm.mode = "edit" /\ HasId(w.secrets, r.secretForm.editID)
    /\ TrimSpace(formValue(r.secretForm.inputs, "name")) # NoText

\* C13: no step changes the identifier, type or creation time of a stored
\* secret, and an edit-mode save writes a record with the identifier, type
\* and creation time of the stored one, at its place, leaving the number of
\* stored secrets and every other secret unchanged.
C13_Identity ==
    /\ [](UniqueIds(world.secrets))
    /\ [][KeepsIdentity(world.secrets, world'.secrets)]_vars
    /\ [](EditSaving(m, world) =>
            \A k \in SaveKeys(m.secretForm), env \in CalmEnvs :
               LET t == Turn(m, KeyMsg(k), world, env)
               IN /\ Len(t.w.secrets) = Len(world.secrets)
                  /\ \A i \in 1..Len(world.secrets) :
                        IF world.secrets[i].id = m.secretForm.editID
                        THEN IdentityOf(t.w.secrets[i]) = IdentityOf(world.secrets[i])
                        ELSE t.w.secrets[i] = world.secrets[i])

\* secret 2, a note, was saved from a form that still held the fields of
\* secret 1, a password, after its own read had failed
C13_Witness ==
    /\ Running /\ Len(world.secrets) = 2
    /\ world.secrets[2].id = 2 /\ world.secrets[2].type = "note"
    /\ world.secrets[2].name = world.secrets[1].name
    /\ m.secretForm.mode = "edit" /\ m.secretForm.editID = 2
    /\ m.secretForm.secType = "password"

\* secret 1 was saved under a new name
C13_Renamed ==
    /\ Running /\ Len(world.secrets) = 2 /\ world.secrets[1].id = 1
    /\ world.secrets[1].name = <<"a">> /\ world.secrets[1].updated = MaxClock
    /\ m.view = "secretList"

----------------------------------------------------------------------------
(* The task form, with a user who creates or edits a task and saves once *)

TaskFormKeys ==
    [v \in Views |->
       CASE v = "password" -> {"a", "enter"}
         [] v = "menu" -> {"j", "enter"}
         [] v = "taskList" -> {"n", "enter"}
         [] v = "taskDetail" -> {"e"}
         [] v = "taskForm" -> {"a", "backspace", "tab", "enter", "ctrl+s", "esc"}
         [] OTHER -> {}]

\* the store is written at most once in a run
FirstWrite(st) == world'.tasks # world.tasks => world.tasks = st.tasks

Draft == Stroke(TaskFormKeys, SteadyEnvs) /\ FirstWrite(StoreNoTags)

Hand == Deliver(SteadyEnvs)

Unbolt == OpenVault(SteadyEnvs)

NextTaskForm == Draft \/ Hand \/ Unbolt

SpecTaskForm == InitOn({StoreNoTags}, {FALSE}) /\ [][NextTaskForm]_vars

TaskSaveKeys(tf) == {"ctrl+s"} \cup (IF tf.focused = fieldTags THEN {"enter"} ELSE {})

\* the form holds a title and a due date that parse
Savable(tf, env) ==
    TrimSpace(tf.title) # NoText /\ parseRelativeDate(tf.due, env.now).err = ""

\* rec carries what the form holds
Edited(rec, tf, env) ==
    /\ rec.title = TrimSpace(tf.title) /\ rec.priority = tf.priority
    /\ rec.due = parseRelativeDate(tf.due, env.now).t /\ rec.tags = parseTags(tf.tags)

\* what an edit keeps of the task it was handed
KeptOf(t) == [id |-> t.id, created |-> t.created, done |-> t.done,
              completedAt |-> t.completedAt]

\* the navigate messages in flight that hand a task to the form
HandedTasks ==
    {c.msg.data.task : c \in {d \in BagToSet(inflight) :
          d.cmd = "msg" /\ d.msg.type = "navigate" /\ d.msg.view = "taskForm"
          /\ d.msg.data.kind = "task"}}

\* C14: a successful task-form save in edit mode replaces the stored task
\* by one with the identifier, creation time, done flag and completion time
\* of the task handed over in the navigation payload and the edited title,
\* priority, due date and tags, the task count unchanged; in create mode it
\* adds exactly one new pending task with a fresh identifier.
C14_TaskSave ==
    /\ \A p \in HandedTasks :
          Running => Turn(m, navigateMsg("taskForm", TaskData(p)), world,
                          CHOOSE e \in SteadyEnvs : TRUE).s.taskForm.editing = p
    /\ (Running /\ m.view = "taskForm") =>
          \A k \in TaskSaveKeys(m.taskForm), env \in CalmEnvs :
             LET t == Turn(m, KeyMsg(k), world, env)
                 tf == m.taskForm
                 n == Len(world.tasks)
             IN Savable(tf, env) =>
                  /\ NavigatesTo(t.cmds, "taskList") /\ t.w.secrets = world.secrets
                  /\ IF tf.editing # NoTask
                     THEN /\ Len(t.w.tasks) = n /\ HasId(world.tasks, tf.editing.id)
                          /\ \A i \in 1..n :
                                IF world.tasks[i].id = tf.editing.id
                                THEN /\ KeptOf(t.w.tasks[i]) = KeptOf(tf.editing)
                                     /\ Edited(t.w.tasks[i], tf, env)
                                ELSE t.w.tasks[i] = world.tasks[i]
                     ELSE /\ Len(t.w.tasks) = n + 1
                          /\ SubSeq(t.w.tasks, 1, n) = world.tasks
                          /\ ~HasId(world.tasks, t.w.tasks[n + 1].id)
                          /\ ~t.w.tasks[n + 1].done
                          /\ t.w.tasks[n + 1].completedAt = NoTime
                          /\ Edited(t.w.tasks[n + 1], tf, env)

\* the done task 1 was saved from the form with a new title, a priority and
\* a tag, and is still done with its completion time
C14_Witness ==
    /\ Running /\ m.view = "taskList" /\ Len(world.tasks) = 1
    /\ world.tasks[1] = [StoreNoTags.tasks[1] EXCEPT !.title = <<"a">>, !.priority = "low",
                                                     !.tags = <<ta>>]

\* a task was created from the form
C14_Created ==
    /\ Running /\ m.view = "taskList" /\ Len(world.tasks) = 2
    /\ world.tasks[1] = StoreNoTags.tasks[1]
    /\ world.tasks[2].title = <<"a">> /\ ~world.tasks[2].done
    /\ world.tasks[2].id = FirstFreeId /\ Len(m.taskList.tasks) = 2


----------------------------------------------------------------------------
(* The secret detail view over secrets of every type, with reads that fail *)

sshFields(priv, pass) ==
    SetField(SetField(SetField(SetField(NoFields, "label", NoText), "private_key", priv),
                      "public_key", NoText), "passphrase", pass)

StoreSensitive ==
    [secrets |-> <<Sec(1, <<"g">>, "password",
                       SetField(pwFields(<<"u">>, <<"s", "e", "c">>), "totp_secret",
                                <<"k", "k">>), <<>>),
                   Sec(2, <<"h">>, "sshkey", sshFields(<<"p">>, <<"w", "w">>), <<ta>>),
                   Sec(3, <<"n">>, "note", SetField(NoFields, "content", <<"x">>), <<>>)>>,
     tasks |-> <<>>]

MaskKeys ==
    [v \in Views |->
       CASE v = "password" -> {"a", "enter"}
         [] v = "menu" -> {"enter"}
         [] v = "secretList" -> {"j", "k", "enter"}
         [] v = "secretDetail" -> {"s", "j", "d", "n", "esc"}
         [] OTHER -> {}]

Peek == Stroke(MaskKeys, CalmEnvs)

Load == Deliver(GetFailEnvs)

Beat == TotpTick(GetFailEnvs)

Unveil == OpenVault(CalmEnvs)

NextMask == Peek \/ Load \/ Beat \/ Unveil

SpecMask == InitOn({StoreSensitive}, {FALSE}) /\ [][NextMask]_vars

\* the rows of the detail view that hold a sensitive field
SensitiveRows(sd) == {i \in 1..Len(sd.fields) : sd.fields[i].sensitive}

\* values of several lengths a sensitive field can hold
ProbeValues == {NoText, <<"s">>, <<"*", "*", "*", "*", "*", "*", "*", "*", "s">>,
                <<"s", "e", "c", "r", "e", "t", "s", "e", "c", "r", "e", "t">>}

\* C15: one flag governs every sensitive field of the secret detail view:
\* hidden, every sensitive row is the same eight-character placeholder,
\* whatever the value and its length, and the placeholder never holds the
\* value; shown, every sensitive row is its value; the 's' key flips the flag
\* and so all the rows at once, and changes no field.
C15_OneFlag ==
    LET sd == m.secretDetail
        rows == secretDetailModel_View(sd)
    IN /\ sd.secretID # NoId =>
            /\ Len(rows) = Len(sd.fields)
            /\ IF sd.showSensitive
               THEN \A i \in SensitiveRows(sd) : rows[i] = sd.fields[i].value
               ELSE \A i \in SensitiveRows(sd) :
                       /\ rows[i] = Mask
                       /\ sd.fields[i].value # NoText => ~Contains(rows[i], sd.fields[i].value)
       /\ \A v \in ProbeValues :
             LET f == detailField("password", v, TRUE, FALSE, "copy")
             IN /\ secretDetailModel_renderValue([sd EXCEPT !.showSensitive = FALSE], f) = Mask
                /\ secretDetailModel_renderValue([sd EXCEPT !.showSensitive = TRUE], f) = v
       /\ (Running /\ m.view = "secretDetail" /\ ~sd.confirmDelete) =>
            \A env \in GetFailEnvs :
               LET t == Turn(m, KeyMsg("s"), world, env)
               IN /\ t.s.secretDetail = [sd EXCEPT !.showSensitive = ~sd.showSensitive]
                  /\ t.s.view = "secretDetail" /\ t.cmds = <<>> /\ t.w = world

\* the detail view shows a secret with two sensitive fields of different
\* lengths, revealed by the 's' key
C15_Revealed ==
    /\ Running /\ m.view = "secretDetail" /\ m.secretDetail.showSensitive
    /\ Cardinality(SensitiveRows(m.secretDetail)) = 2
    /\ m.secretDetail.hasTOTP /\ m.secretDetail.totpCode # NoText

\* the flag is back to hidden on a second secret after it was raised on a
\* first one
C15_HiddenAgain ==
    /\ Running /\ m.view = "secretDetail" /\ ~m.secretDetail.showSensitive
    /\ m.secretDetail.secret.type = "sshkey"
    /\ Cardinality(SensitiveRows(m.secretDetail)) = 2

----------------------------------------------------------------------------
(* Errors reported while the password view or another view is active *)

ErrKeys ==
    [v \in Views |->
       CASE v = "password" -> {"a", "b", "tab", "enter"}
         [] v = "menu" -> {"j", "enter"}
         [] v = "secretList" -> {"d", "y"}
         [] v = "taskList" -> {" ", "d", "y"}
         [] OTHER -> {}]

Act == Stroke(ErrKeys, StoreFailEnvs)

Report == Deliver(StoreFailEnvs)

Accept == OpenVault(SteadyEnvs)

NextErr == Act \/ Report \/ Accept

SpecErr == InitOn({StoreTwoTags, StoreEmpty}, BOOLEAN) /\ [][NextErr]_vars

\* the error texts the program reports
ErrTexts == {"open store", "toggle task", "delete secret", "clipboard"}

\* the turn t has routed the error text e from the model r over the store w
ErrRouted(r, w, e, t) ==
    /\ t.cmds = <<>> /\ t.w = w
    /\ IF r.view = "password"
       THEN /\ t.s = [r EXCEPT !.password.err = e]
            /\ t.s.err = r.err /\ t.s.view = "password"
            /\ t.s.password.password = r.password.password
            /\ t.s.password.confirm = r.password.confirm
       ELSE /\ t.s = [r EXCEPT !.err = e]
            /\ t.s.view = r.view /\ t.s.password = r.password

\* C16: an errMsg goes to the password view while it is the active view: it
\* sets that view's inline error and leaves the banner, the active view, the
\* typed password and confirmation and everything else as they were; under
\* any other view it sets the root banner only.  Neither returns a command
\* or touches the store.
C16_ErrRouting ==
    Running =>
      \A e \in ErrTexts, env \in StoreFailEnvs :
         ErrRouted(m, world, e, Turn(m, errMsg(e), world, env))

\* a wrong password was refused: the error is inline, the typed text kept
C16_InlineShown ==
    /\ Running /\ m.view = "password" /\ last.msg = errMsg("open store")
    /\ m.password.err = "open store" /\ m.err = ""
    /\ m.password.password = <<"b">>

\* a store call failed under the task list: the error is in the banner and
\* the inline error of the password view is as it was
C16_BannerShown ==
    /\ Running /\ m.view = "taskList" /\ last.msg.type = "err"
    /\ m.err = last.msg.err /\ m.password.err = ""

----------------------------------------------------------------------------
(* Input the password view and the two forms refuse *)

FormViews == {"password", "secretForm", "taskForm"}

\* the keys that submit the active view
SubmitKeys(r) ==
    CASE r.view = "password" -> {"enter"}
      [] r.view = "secretForm" ->
           IF r.secretForm.confirmDiscard THEN {} ELSE SaveKeys(r.secretForm)
      [] r.view = "taskForm" -> TaskSaveKeys(r.taskForm)
      [] OTHER -> {}

\* the active view holds input the spec calls invalid: an empty or
\* unconfirmed password, an empty name or title, a due date that does not
\* parse, a one-time-password seed that does not decode
Refused(r, env) ==
    CASE r.view = "password" ->
           \/ r.password.password = NoText
           \/ /\ r.password.firstRun /\ r.password.focused = "confirm"
              /\ r.password.password # r.password.confirm
      [] r.view = "secretForm" ->
           \/ TrimSpace(formValue(r.secretForm.inputs, "name")) = NoText
           \/ totp_Generate(formValue(r.secretForm.inputs, "totp_secret"), env.now).err
      [] r.view = "taskForm" -> ~Savable(r.taskForm, env)
      [] OTHER -> FALSE

\* the inline error of the active view
InlineErr(r) == r[r.view].err

\* keys that edit or move in a form without submitting it
PlainKeys == {"a", "backspace", "tab"}

\* the turn t refused the input of r: an inline error, no command, no store
\* call, and the next plain key clears the error
RefusedInline(r, w, env, t) ==
    /\ t.s.view = r.view /\ InlineErr(t.s) # ""
    /\ t.cmds = <<>> /\ t.w = w
    /\ \A k \in PlainKeys : InlineErr(Turn(t.s, KeyMsg(k), t.w, env).s) = ""

\* C17: a submit of refused input sets the inline error of the view it came
\* from, returns no navigation, calls no store, and the next key the view
\* processes clears the error.
C17_Validation ==
    (Running /\ m.view \in FormViews) =>
      \A k \in SubmitKeys(m), env \in SteadyEnvs :
         Refused(m, env) =>
            RefusedInline(m, world, env, Turn(m, KeyMsg(k), world, env))

\* the secret form shows the error of a refused save after a further key
C17_StaleError ==
    /\ Running /\ m.view = "secretForm" /\ m.secretForm.err = "name is required"
    /\ formValue(m.secretForm.inputs, "name") = <<"a">>

----------------------------------------------------------------------------
(* A detail view entered for a record the store does not return *)

\* the record id of the active list's collection cannot be read
Unreadable(w, env, view, id) ==
    \/ Fails(env, "get")
    \/ IF view = "secretDetail" THEN ~HasId(w.secrets, id) ELSE ~HasId(w.tasks, id)

\* the turn t shows or reports an error
Alarmed(t) ==
    \/ t.s.err # ""
    \/ \E i \in 1..Len(t.cmds) : t.cmds[i].cmd = "msg" /\ t.cmds[i].msg.type = "err"

\* the detail view v of the model r renders no record
NothingSelected(r, v) ==
    IF v = "secretDetail" THEN secretDetailModel_View(r.secretDetail) = NoSecretSelected
    ELSE ~r.taskDetail.loaded

\* the turn t entered the detail view v without a record
EnteredEmpty(t, v) == t.s.view = v /\ Alarmed(t) /\ NothingSelected(t.s, v)

DetailOf == [v \in {"secretList", "taskList"} |->
               IF v = "secretList" THEN "secretDetail" ELSE "taskDetail"]

\* C18: a detail view entered from its list with an id the store does not
\* return shows an error and renders no record, so nothing of the record
\* viewed before.
C18_NotFound ==
    (Running /\ m.vault # NilVault /\ m.view \in DOMAIN DetailOf) =>
      \A id \in 1..(MaxIds + 1), env \in GetFailEnvs :
         Unreadable(world, env, DetailOf[m.view], id) =>
            EnteredEmpty(Turn(m, navigateMsg(DetailOf[m.view], IdData(id)), world, env),
                         DetailOf[m.view])

\* the detail view was entered for the first secret, whose read failed, and
\* renders the name and the fields of the second, viewed before
C18_StaleRecord ==
    /\ Running /\ m.view = "secretDetail" /\ m.err = ""
    /\ m.secretDetail.secretID = 1 /\ m.secretDetail.secret.id = 2
    /\ secretDetailModel_View(m.secretDetail)[1] = <<"h">>
    /\ Len(secretDetailModel_View(m.secretDetail)) = Len(buildDetailFields(m.secretDetail.secret))

----------------------------------------------------------------------------
(* Store writes that fail *)

\* the environments in which a store write fails
FailingWrites == {e \in Envs : e.fail = "write"}

\* the keys of the views that write to the store
WriteProbeKeys == {" ", "d", "x", "y", "enter", "ctrl+s"}

\* the key k makes a store write in the state r: it changes the store when
\* no call fails
Writes(r, w, k) ==
    \E env \in SteadyEnvs : ~SameStore(w, Turn(r, KeyMsg(k), w, env).w)

\* the records the active view's controller holds in memory
Held(r) ==
    CASE r.view = "taskList" -> <<r.taskList.tasks>>
      [] r.view = "taskDetail" -> <<r.taskDetail.task, r.taskDetail.loaded>>
      [] r.view = "taskForm" -> <<r.taskForm.editing>>
      [] r.view = "secretList" -> <<r.secretList.secrets>>
      [] r.view = "secretDetail" -> <<r.secretDetail.secret, r.secretDetail.fields>>
      [] OTHER -> <<>>

\* the turn t shows an error, in the banner or inline in a form
ErrorShown(t) ==
    \/ Alarmed(t)
    \/ t.s.view \in {"secretForm", "taskForm"} /\ InlineErr(t.s) # ""

NoNavigation(cmds) ==
    \A i \in 1..Len(cmds) : ~(cmds[i].cmd = "msg" /\ cmds[i].msg.type = "navigate")

\* the turn t from the model r is an aborted write
Aborted(r, t) ==
    /\ ErrorShown(t) /\ NoNavigation(t.cmds)
    /\ t.s.view = r.view /\ Held(t.s) = Held(r)

\* C19: a toggle, delete, clear-completed or save whose store call fails
\* shows an error, emits no navigation and leaves the records the view holds
\* in memory as they were.
C19_FailedWrite ==
    Running =>
      \A k \in WriteProbeKeys, env \in FailingWrites :
         Writes(m, world, k) => Aborted(m, Turn(m, KeyMsg(k), world, env))

\* the task detail shows, under the banner of the failed update, a done flag
\* the store does not hold
C19_FlagKept ==
    /\ Running /\ m.view = "taskDetail" /\ m.taskDetail.loaded /\ m.err = "update task"
    /\ HasId(world.tasks, m.taskDetail.task.id)
    /\ colGet(world.tasks, m.taskDetail.task.id).done # m.taskDetail.task.done

----------------------------------------------------------------------------
(* A user who presses keys while commands are still running *)

MaxOpens == 2

\* a key pressed with up to MaxOpens commands running
Hasty(K, E) ==
    /\ Running
    /\ \E k \in K[m.view], env \in E :
          /\ StartedWithin(MaxOpens, Turn(m, KeyMsg(k), world, env), SomeKey, inflight,
                           clearq, clip)
          /\ TypedOK(m, m')
    /\ UNCHANGED <<vaultPw, handles, clipboard, trail>>

OpenKeys ==
    [v \in Views |->
       CASE v = "password" -> {"a", "b", "enter"}
         [] v = "menu" -> {"j", "enter"}
         [] v = "secretList" -> {"j", "esc"}
         [] v = "taskList" -> {" ", "esc"}
         [] OTHER -> {}]

Hurry == Hasty(OpenKeys, SteadyEnvs)

Result == Deliver(SteadyEnvs)

Granted == OpenVault(SteadyEnvs)

NextOpen == Hurry \/ Result \/ Granted

SpecOpen == InitOn({StoreTwoTags}, {FALSE}) /\ [][NextOpen]_vars

RECURSIVE CountIn(_, _)
CountIn(S, b) ==
    IF S = {} THEN 0
    ELSE LET c == CHOOSE x \in S : TRUE IN CopiesIn(c, b) + CountIn(S \ {c}, b)

\* the vault.Open calls that were issued and have not delivered their result
Opens(b) == CountIn({c \in BagToSet(b) : c.cmd = "openVault"}, b)

\* the turn of msg calls the store: its outcome depends on whether a store
\* call fails
CallsStore(r, msg, w) ==
    \E env \in Envs :
       Turn(r, msg, w, env) # Turn(r, msg, w, [env EXCEPT !.fail = "none"])

\* the messages the program can process next
NextMsgs ==
    {KeyMsg(k) : k \in OpenKeys[m.view]}
      \cup {c.msg : c \in {x \in BagToSet(inflight) : x.cmd = "msg"}}

\* C20: at most one store call is in progress at any time: never two
\* vault.Open calls between issue and result, and no message that calls the
\* store is processed while one is.
C20_OneStoreCall ==
    /\ Opens(inflight) <= 1
    /\ (Running /\ Opens(inflight) = 1) =>
          \A msg \in NextMsgs : ~CallsStore(m, msg, world)

\* Enter was pressed twice in the password view: two vault.Open calls run
C20_TwoOpens == Running /\ m.view = "password" /\ Opens(inflight) = 2

\* the secret list was loaded from the store while a vault.Open call was
\* still running
C20_Overlap ==
    /\ Running /\ m.view = "secretList" /\ last.msg.type = "navigate"
    /\ Opens(inflight) = 1

----------------------------------------------------------------------------
(* The back key *)

\* the active view has a sub-state armed: a search, a confirmation, a form
\* with unsaved changes
Armed(r) ==
    CASE r.view = "secretList" -> r.secretList.searching \/ r.secretList.confirmDelete
      [] r.view = "taskList" -> r.taskList.confirm # "none"
      [] r.view = "secretDetail" -> r.secretDetail.confirmDelete
      [] r.view = "taskDetail" -> r.taskDetail.confirm # "none"
      [] r.view = "secretForm" -> r.secretForm.confirmDiscard \/ r.secretForm.changed
      [] OTHER -> FALSE

BackViews == {"secretList", "taskList", "secretDetail", "secretForm", "taskDetail",
              "taskForm"}

\* the turn t asks for the view v and does nothing else to the store w
GoesTo(t, w, v) == NavigatesTo(t.cmds, v) /\ t.w = w

\* C21: Esc in a view with nothing armed asks for exactly the parent of that
\* view: the lists go to the menu, the secret detail and form to the secret
\* list, the task detail and form to the task list.
C21_BackToParent ==
    (Running /\ m.view \in BackViews /\ ~Armed(m)) =>
      /\ \A env \in Envs :
            GoesTo(Turn(m, KeyMsg("esc"), world, env), world, parentView(m.view))
      /\ parentView(m.view) =
            (CASE m.view \in {"secretList", "taskList"} -> "menu"
               [] m.view \in {"secretDetail", "secretForm"} -> "secretList"
               [] OTHER -> "taskList")

\* Esc was pressed in the secret form and the secret list was asked for
C21_Witness ==
    /\ Running /\ m.view = "secretForm" /\ last.msg = KeyMsg("esc")
    /\ NavigatesTo(last.cmds, "secretList")

\* Esc was pressed in the task detail and the task list was asked for
C21_FromTaskDetail ==
    /\ Running /\ m.view = "taskDetail" /\ last.msg = KeyMsg("esc")
    /\ NavigatesTo(last.cmds, "taskList")

----------------------------------------------------------------------------
(* Clearing the done tasks *)

Pending(tks) == SelectSeq(tks, LAMBDA t : ~t.done)

\* confirmPrompt: the line View writes under the list while a confirmation
\* is armed, nothing otherwise
taskListModel_confirmPrompt(tl) ==
    CASE tl.confirm = "delete" /\ Len(tl.tasks) > 0 /\ tl.cursor < Len(tl.tasks) ->
           <<<<"Delete">>, tl.tasks[tl.cursor + 1].title, <<"? (y/n)">>>>
      [] tl.confirm = "clearDone" ->
           <<<<"Clear">>, <<Digits[(tl.doneCount % 10) + 1]>>, <<"done tasks? (y/n)">>>>
      [] OTHER -> <<>>

\* the task list shows the number n
ShowsCount(tl, n) ==
    \E i \in 1..Len(taskListModel_confirmPrompt(tl)) :
       taskListModel_confirmPrompt(tl)[i] = <<Digits[(n % 10) + 1]>>

\* the turn t of 'y' removed every done task of the store w, kept the
\* pending ones and tells how many it removed
ClearedAll(w, t) ==
    /\ t.w.tasks = Pending(w.tasks)
    /\ t.s.taskList.confirm = "none"
    /\ ShowsCount(t.s.taskList, Len(DoneTasks(w.tasks)))

\* the turn a of 'x' armed the confirmation only over a done task, and 'y'
\* then clears
ArmedThenCleared(w, env, a) ==
    a.s.taskList.confirm = "clearDone" =>
       /\ DoneTasks(w.tasks) # <<>>
       /\ ClearedAll(w, Turn(a.s, KeyMsg("y"), a.w, env))

\* C22: 'x' arms the clear-completed confirmation only when the store holds
\* a done task; 'y' then removes every done task and no pending one in one
\* store call, and the number removed is shown to the user.
C22_ClearDone ==
    (Running /\ m.view = "taskList" /\ m.taskList.confirm = "none") =>
      \A env \in SteadyEnvs :
         ArmedThenCleared(world, env, Turn(m, KeyMsg("x"), world, env))

\* the list counts a done task the store no longer holds, so 'x' arms the
\* confirmation over nothing
C22_StaleCount ==
    /\ Running /\ m.view = "taskList" /\ m.taskList.confirm = "none"
    /\ m.taskList.doneCount > 0 /\ DoneTasks(world.tasks) = <<>>

----------------------------------------------------------------------------
(* A first-run submit on a confirmation that differs *)

\* the first-run Unlock view with the focus on a confirmation that differs
\* from the password
Mismatched(r) ==
    /\ Running /\ r.view = "password" /\ r.password.firstRun
    /\ r.password.focused = "confirm" /\ r.password.confirm # r.password.password

\* the turn t refused the submit of p and emptied the confirmation
ConfirmCleared(p, t) ==
    /\ t.s.password.confirm = NoText /\ t.s.password.err # ""
    /\ t.s.password.focused = "confirm" /\ t.s.password.password = p.password
    /\ t.s.view = "password"

\* the turn t refused the submit of p and kept both fields
ConfirmKept(p, t) ==
    /\ t.s.password.confirm = p.confirm /\ t.s.password.err # ""
    /\ t.s.password.focused = "confirm" /\ t.s.password.password = p.password
    /\ t.s.view = "password"

\* C23 as stated: in first-run mode, for all password and confirm values, a
\* submit with the focus on a confirmation that differs from the password
\* clears the confirmation, shows an inline error, leaves the focus on the
\* confirmation and leaves the password as it was.
C23_AllValues ==
    Mismatched(m) =>
      \A env \in Envs : ConfirmCleared(m.password, Turn(m, KeyMsg("enter"), world, env))

\* C23 as amended: the same for every non-empty password; with an empty
\* password the submit shows an inline error and keeps the confirmation.
\* Neither issues a command or touches the store.
C23_Mismatch ==
    Mismatched(m) =>
      \A env \in Envs :
         /\ IF m.password.password # NoText
            THEN ConfirmCleared(m.password, Turn(m, KeyMsg("enter"), world, env))
            ELSE ConfirmKept(m.password, Turn(m, KeyMsg("enter"), world, env))
         /\ Turn(m, KeyMsg("enter"), world, env).cmds = <<>>
         /\ Turn(m, KeyMsg("enter"), world, env).w = world

\* the confirmation 'a' of the password 'b' was refused and emptied
C23_Witness ==
    /\ Running /\ last.msg = KeyMsg("enter") /\ last.cmds = <<>>
    /\ m.password.firstRun /\ m.password.focused = "confirm"
    /\ m.password.err = "passwords do not match"
    /\ m.password.password = <<"b">> /\ m.password.confirm = NoText

\* a confirmation typed under an empty password survived the refused submit
C23_EmptyPassword ==
    /\ Running /\ last.msg = KeyMsg("enter") /\ m.password.firstRun
    /\ m.password.focused = "confirm" /\ m.password.err = "password cannot be empty"
    /\ m.password.password = NoText /\ m.password.confirm = <<"a">>

----------------------------------------------------------------------------
(* The rows of the secret detail view, over records of every type *)

tv == <<"v">>

AllFieldsSet ==
    [k \in {"url", "username", "password", "totp_secret", "notes", "service", "key",
            "label", "private_key", "public_key", "passphrase", "content"} |-> <<k>>]

\* records with every field of every type stored, and records with none
FullOf(id, type) == Sec(id, <<type>>, type, AllFieldsSet, <<ta, tb>>)

BareOf(id, type) == Sec(id, tv, type, NoFields, <<>>)

FieldStores ==
    {[secrets |-> <<FullOf(1, t), BareOf(2, u)>>, tasks |-> <<>>] :
        t \in {"sshkey", "apikey", "note"}, u \in SecretTypes}
      \cup {[secrets |-> <<BareOf(1, "password"), FullOf(2, "password")>>, tasks |-> <<>>]}

FieldWalkKeys ==
    [v \in Views |->
       CASE v = "password" -> {"a", "enter"}
         [] v = "menu" -> {"enter"}
         [] v = "secretList" -> {"j", "k", "enter"}
         [] v = "secretDetail" -> {"j", "esc"}
         [] OTHER -> {}]

Look == Stroke(FieldWalkKeys, SteadyEnvs)

Bring == Deliver(SteadyEnvs)

Pulse == TotpTick(SteadyEnvs)

Unshut == OpenVault(SteadyEnvs)

NextFields == Look \/ Bring \/ Pulse \/ Unshut

SpecFields == InitOn(FieldStores, {FALSE}) /\ [][NextFields]_vars

\* the rows of each type in their fixed order, the optional ones included
RowOrder(type) ==
    <<"name", "type">>
      \o (CASE type = "password" ->
                 <<"url", "username", "password", "totp secret", "totp code", "notes">>
            [] type = "apikey" -> <<"service", "key", "notes">>
            [] type = "sshkey" ->
                 <<"label", "private key", "public key", "passphrase", "notes">>
            [] OTHER -> <<"content">>)
      \o <<"tags", "created", "updated">>

\* what the record s stores for the row labelled l
StoredFor(s, l) ==
    CASE l = "name" -> s.name
      [] l = "type" -> TypeText(s.type)
      [] l = "tags" -> JoinTags(s.tags)
      [] l = "created" -> TimeText(s.created)
      [] l = "updated" -> TimeText(s.updated)
      [] l = "totp secret" -> field(s, "totp_secret")
      [] l = "totp code" -> NoText
      [] l = "private key" -> field(s, "private_key")
      [] l = "public key" -> field(s, "public_key")
      [] OTHER -> field(s, l)

\* the rows shown only when the record stores something for them
OptionalRow(s, l) ==
    CASE l \in {"totp secret", "totp code"} -> field(s, "totp_secret") = NoText
      [] l \in {"notes", "passphrase"} -> field(s, l) = NoText
      [] l = "tags" -> s.tags = <<>>
      [] OTHER -> FALSE

\* the rows the record s must show, in order
RowsOf(s) == SelectSeq(RowOrder(s.type), LAMBDA l : ~OptionalRow(s, l))

\* the fields flds are the rows of s, in order, each with the stored value
Conforms(s, flds) ==
    /\ [i \in 1..Len(flds) |-> flds[i].label] = RowsOf(s)
    /\ \A i \in 1..Len(flds) : flds[i].value = StoredFor(s, flds[i].label)

C24_Bare ==
    /\ Running /\ m.view = "secretDetail" /\ m.secretDetail.secret.type = "password"
    /\ Len(m.secretDetail.fields) = 7

----------------------------------------------------------------------------
(* A secret is created, listed, viewed, revealed and deleted *)

\* the inputs the scenario types into
TypedKeys == {"name", "password"}

OnlyTyped(inputs) ==
    \A i \in 1..Len(inputs) : inputs[i].value # NoText => inputs[i].fieldKey \in TypedKeys

LifeKeys ==
    [v \in Views |->
       CASE v = "password" -> {"a", "enter"}
         [] v = "menu" -> {"enter"}
         [] v = "secretList" -> {"n", "tab", "enter"}
         [] v = "secretForm" -> {"a", "tab", "ctrl+s"}
         [] v = "secretDetail" -> {"s", "d", "y", "esc"}
         [] OTHER -> {}]

Live == Stroke(LifeKeys, SteadyEnvs) /\ OnlyTyped(m'.secretForm.inputs)

Turnout == Deliver(SteadyEnvs)

Unclose == OpenVault(SteadyEnvs)

NextLife == Live \/ Turnout \/ Unclose

SpecLife == InitOn({StoreNoTags}, {FALSE}) /\ [][NextLife]_vars

\* the password secrets made through the form
CreatedPasswords(w) ==
    {i \in 1..Len(w.secrets) : w.secrets[i].id >= FirstFreeId /\ w.secrets[i].type = "password"}

Lists(sl, id) == \E i \in 1..Len(sl.secrets) : sl.secrets[i].id = id

\* what the detail view writes in the row labelled l
RowOf(sd, l) ==
    LET i == CHOOSE j \in 1..Len(sd.fields) : sd.fields[j].label = l
    IN secretDetailModel_View(sd)[i]

HasRow(sd, l) == \E j \in 1..Len(sd.fields) : sd.fields[j].label = l

\* the turn t entered the detail view of the record s with its password hidden
EnteredHidden(s, t) ==
    /\ t.s.view = "secretDetail" /\ t.s.secretDetail.secret = s
    /\ ~t.s.secretDetail.showSensitive
    /\ HasRow(t.s.secretDetail, "password") /\ RowOf(t.s.secretDetail, "password") = Mask

\* the turn t shows the password the store w holds for the record id
Revealed(w, id, t) ==
    /\ t.s.secretDetail.showSensitive
    /\ RowOf(t.s.secretDetail, "password") = field(colGet(w.secrets, id), "password")

\* the turn t deleted the record id, and the list loaded next is without it
Deleted(id, env, t) ==
    /\ ~HasId(t.w.secrets, id) /\ NavigatesTo(t.cmds, "secretList")
    /\ ~Lists(Turn(t.s, navigateMsg("secretList", NoData), t.w, env).s.secretList, id)

\* C25: a password secret created through the form is in the secret list
\* under the password filter; its detail view is entered with the sensitive
\* rows hidden; the reveal key shows exactly the stored password; after a
\* confirmed delete the next list load is without it.
C25_SecretLife ==
    Running =>
      \A i \in CreatedPasswords(world), env \in SteadyEnvs :
         /\ (m.view = "secretList" /\ m.secretList.search = NoText
               /\ m.secretList.filter \in {filterAll, filterPassword})
              => Lists(m.secretList, world.secrets[i].id)
         /\ m.view = "secretList"
              => EnteredHidden(world.secrets[i],
                               Turn(m, navigateMsg("secretDetail",
                                                   IdData(world.secrets[i].id)), world, env))
         /\ (m.view = "secretDetail" /\ last.msg.type = "navigate")
              => ~m.secretDetail.showSensitive
         /\ (m.view = "secretDetail" /\ m.secretDetail.secret = world.secrets[i]
               /\ ~m.secretDetail.confirmDelete /\ ~m.secretDetail.showSensitive)
              => Revealed(world, world.secrets[i].id, Turn(m, KeyMsg("s"), world, env))
         /\ (m.view = "secretDetail" /\ m.secretDetail.secretID = world.secrets[i].id
               /\ m.secretDetail.confirmDelete)
              => Deleted(world.secrets[i].id, env, Turn(m, KeyMsg("y"), world, env))

\* the secret made through the form was viewed, revealed and deleted, and
\* the list under the password filter was loaded without it
C25_Witness ==
    /\ Running /\ m.view = "secretList" /\ last.msg.type = "navigate"
    /\ m.secretList.filter = filterPassword /\ m.secretList.secrets = <<>>
    /\ world.nextId = FirstFreeId + 1 /\ ~HasId(world.secrets, FirstFreeId)
    /\ m.secretDetail.secret.id = FirstFreeId /\ m.secretDetail.showSensitive
    /\ field(m.secretDetail.secret, "password") = <<"a">>

\* the created secret is the only row of the list under the password filter
C25_Listed ==
    /\ Running /\ m.view = "secretList" /\ m.secretList.filter = filterPassword
    /\ Len(m.secretList.secrets) = 1 /\ m.secretList.secrets[1].id = FirstFreeId

\* the detail view shows the stored password of the created secret
C25_Shown ==
    /\ Running /\ m.view = "secretDetail" /\ m.secretDetail.secret.id = FirstFreeId
    /\ m.secretDetail.showSensitive /\ RowOf(m.secretDetail, "password") = <<"a">>

----------------------------------------------------------------------------
(* A task is added with a priority and a relative due date, then toggled *)

\* the due date the scenario types
DueText == <<"+", "3", "d">>

\* the title the scenario types
TitleText == <<"a">>

IsPrefix(a, b) == Len(a) <= Len(b) /\ SubSeq(b, 1, Len(a)) = a

StoreQueue ==
    [secrets |-> <<>>,
     tasks |-> <<Tsk(1, <<"x">>, FALSE, "low", NoTime, <<>>),
                 Tsk(2, <<"y">>, FALSE, "medium", 1, <<>>),
                 Tsk(3, <<"k">>, FALSE, "high", 1, <<>>)>>]

QueueKeys ==
    [v \in Views |->
       CASE v = "password" -> {"a", "enter"}
         [] v = "menu" -> {"j", "enter"}
         [] v = "taskList" -> {"n", "j", " ", "tab"}
         [] v = "taskForm" -> {"a", "+", "3", "d", "tab", " ", "ctrl+s"}
         [] OTHER -> {}]

\* the form holds the title as far as it is typed, a priority once it has a
\* title, the due text as far as it is typed, and no tags
Scripted(tf) ==
    /\ IsPrefix(tf.title, TitleText) /\ (tf.priority # PriorityNone => tf.title # NoText)
    /\ IsPrefix(tf.due, DueText) /\ tf.tags = NoText

\* a key press; one task is created, once the form is filled
Jot ==
    /\ Running
    /\ \E k \in QueueKeys[m.view], env \in SteadyEnvs :
          Started(Turn(m, KeyMsg(k), world, env), SomeKey, inflight, clearq, clip)
    /\ TypedOK(m, [m' EXCEPT !.taskForm = m.taskForm]) /\ Scripted(m'.taskForm)
    /\ world'.nextId <= FirstFreeId + 1
    /\ world'.nextId # world.nextId => m.taskForm.due = DueText
    /\ UNCHANGED <<vaultPw, handles, clipboard, trail>>

Attend == Deliver(SteadyEnvs)

Unhasp == OpenVault(SteadyEnvs)

NextQueue == Jot \/ Attend \/ Unhasp

SpecQueue == InitOn({StoreQueue}, {FALSE}) /\ [][NextQueue]_vars

\* the tasks added through the form with priority high and the due text
Added(w, env) ==
    {i \in 1..Len(w.tasks) :
        /\ w.tasks[i].id >= FirstFreeId /\ w.tasks[i].priority = "high"
        /\ w.tasks[i].due = parseRelativeDate(DueText, env.now).t}

RowsWith(tl, id) == {j \in 1..Len(tl.tasks) : tl.tasks[j].id = id}

\* the pending task c is on one row of the list, above every pending task
\* of priority medium or low
AboveLesser(tl, c) ==
    /\ Cardinality(RowsWith(tl, c.id)) = 1
    /\ \A j \in RowsWith(tl, c.id), u \in 1..Len(tl.tasks) :
          (~tl.tasks[u].done /\ tl.tasks[u].priority \in {"medium", "low"}) => j < u

\* the turn t marked the task id done
MarkedDone(id, t) == HasId(t.w.tasks, id) /\ colGet(t.w.tasks, id).done

\* C26: a task added through the form with priority high and due '+3d' is
\* in the list under the 'all' filter, above every pending task of priority
\* medium or low; the toggle key on its row marks it done; once done it is
\* not in the list under the 'pending' filter and is in the list under the
\* 'done' filter.
C26_TaskLife ==
    (Running /\ m.view = "taskList") =>
      \A env \in SteadyEnvs : \A i \in Added(world, env) :
         /\ (m.taskList.filter = taskFilterAll /\ ~world.tasks[i].done)
              => AboveLesser(m.taskList, world.tasks[i])
         /\ (m.taskList.filter = taskFilterAll /\ ~world.tasks[i].done
               /\ m.taskList.cursor + 1 \in RowsWith(m.taskList, world.tasks[i].id))
              => MarkedDone(world.tasks[i].id, Turn(m, KeyMsg(" "), world, env))
         /\ (m.taskList.filter = taskFilterPending /\ world.tasks[i].done)
              => RowsWith(m.taskList, world.tasks[i].id) = {}
         /\ (m.taskList.filter = taskFilterDone /\ world.tasks[i].done)
              => RowsWith(m.taskList, world.tasks[i].id) # {}

\* the added task is on the second row, under the high task due earlier and
\* above the medium and the low task
C26_Witness ==
    /\ Running /\ m.view = "taskList" /\ m.taskList.filter = taskFilterAll
    /\ Len(m.taskList.tasks) = 4 /\ m.taskList.tasks[2].id = FirstFreeId
    /\ m.taskList.tasks[2].priority = "high" /\ m.taskList.tasks[2].due = MaxClock + 3
    /\ ~m.taskList.tasks[2].done /\ m.taskList.tasks[3].priority = "medium"

\* the added task was toggled done and the 'done' filter lists it alone
C26_DoneListed ==
    /\ Running /\ m.view = "taskList" /\ m.taskList.filter = taskFilterDone
    /\ Len(m.taskList.tasks) = 1 /\ m.taskList.tasks[1].id = FirstFreeId
    /\ m.taskList.tasks[1].priority = "high" /\ m.taskList.tasks[1].done

\* the added task was toggled done and the 'pending' filter lists the rest
C26_PendingLeft ==
    /\ Running /\ m.view = "taskList" /\ m.taskList.filter = taskFilterPending
    /\ Len(m.taskList.tasks) = 3 /\ HasId(world.tasks, FirstFreeId)
    /\ colGet(world.tasks, FirstFreeId).done
    /\ colGet(world.tasks, FirstFreeId).priority = "high"

----------------------------------------------------------------------------
(* The one-time code over the clock readings around the epoch *)

MaxSkew == 31

\* unix times from before the epoch into the third period after it
TotpTimes == (-MaxSkew)..(2 * period + 1)

TotpEnvs == [fail : {"none"}, part : {0}, now : TotpTimes]

TotpKeys ==
    [v \in Views |->
       CASE v = "password" -> {"a", "enter"}
         [] v = "menu" -> {"enter"}
         [] v = "secretList" -> {"enter"}
         [] OTHER -> {}]

Near == Stroke(TotpKeys, SteadyEnvs)

Read == Deliver(TotpEnvs)

Regenerate == TotpTick(TotpEnvs)

Unfasten == OpenVault(SteadyEnvs)

NextTotp == Near \/ Read \/ Regenerate \/ Unfasten

SpecTotp == InitOn({StoreSensitive}, {FALSE}) /\ [][NextTotp]_vars

\* the key decodeSecret yields for the seed of the secret s
KeyOf(s) == ToLower(SelectSeq(TOTPSecret(s), LAMBDA c : c # " "))

\* sd shows, for the key and the unix time t, the remaining seconds
\* 30 - (t mod 30), in 1..30, and the six-character code of counter
\* floor(t/30)
ShowsFor(sd, key, t) ==
    /\ sd.totpRemaining = period - (t % period) /\ sd.totpRemaining \in 1..period
    /\ Len(sd.totpCode) = digits /\ sd.totpCode = hotp(key, t \div period)

\* two times of one window yield one code
WindowStable(seed) ==
    \A t1, t2 \in TotpTimes :
       (t1 \div period) = (t2 \div period)
          => totp_Generate(seed, t1).code = totp_Generate(seed, t2).code

\* C27: for every unix time t the generator reports remaining =
\* 30 - (t mod 30), in 1..30, and the code of counter floor(t/30), of six
\* characters, so that two times of one 30-second window yield one code:
\* checked on the code and countdown a tick at time t leaves in the detail
\* view of a secret with a seed.
C27_Generate ==
    (Running /\ m.view = "secretDetail" /\ m.secretDetail.hasTOTP
       /\ TOTPSecret(m.secretDetail.secret) # NoText)
      => /\ \A env \in TotpEnvs :
               ShowsFor(Turn(m, totpTickMsg, world, env).s.secretDetail,
                        KeyOf(m.secretDetail.secret), env.now)
         /\ WindowStable(TOTPSecret(m.secretDetail.secret))

\* a tick before the epoch has left a countdown longer than the period
C27_Overlong ==
    /\ Running /\ m.view = "secretDetail" /\ m.secretDetail.hasTOTP
    /\ m.secretDetail.totpCode # NoText /\ m.secretDetail.totpRemaining > period

\* the same, from the epoch on
C27_FromEpoch ==
    (Running /\ m.view = "secretDetail" /\ m.secretDetail.hasTOTP
       /\ TOTPSecret(m.secretDetail.secret) # NoText)
      => \A env \in {e \in TotpEnvs : e.now >= 0} :
            ShowsFor(Turn(m, totpTickMsg, world, env).s.secretDetail,
                     KeyOf(m.secretDetail.secret), env.now)

----------------------------------------------------------------------------
(* The tick of the one-time code, with a user who does not wait for it *)

TickKeys ==
    [v \in Views |->
       CASE v = "password" -> {"a", "enter"}
         [] v = "menu" -> {"enter"}
         [] v = "secretList" -> {"j", "k", "enter"}
         [] v = "secretDetail" -> {"esc"}
         [] OTHER -> {}]

Roam == Hasty(TickKeys, SteadyEnvs)

\* one clock reading, the Get call of an entry succeeding or failing
EntryEnvs == {e \in GetFailEnvs : e.part = 0 /\ e.now = MaxClock}

\* a message command in flight returns its message, others still running
Relay ==
    /\ Running
    /\ \E c \in BagToSet(inflight), env \in EntryEnvs :
          /\ c.cmd = "msg"
          /\ StartedWithin(MaxOpens, Turn(m, c.msg, world, env), c.msg,
                           inflight (-) SetToBag({c}), clearq, clip)
    /\ UNCHANGED <<vaultPw, handles, clipboard, trail>>

\* one of the ticks in flight fires, others still running
Chime ==
    /\ Running
    /\ \E c \in BagToSet(inflight), env \in SteadyEnvs :
          /\ c.cmd = "totpTick"
          /\ StartedWithin(MaxOpens, Turn(m, totpTickMsg, world, env), totpTickMsg,
                           inflight (-) SetToBag({c}), clearq, clip)
    /\ UNCHANGED <<vaultPw, handles, clipboard, trail>>

Unpin == OpenVault(SteadyEnvs)

NextTicks == Roam \/ Relay \/ Chime \/ Unpin

SpecTicks == InitOn({StoreSensitive}, {FALSE}) /\ [][NextTicks]_vars

\* the ticks that are armed and have not fired
Ticks(b) == CountIn({c \in BagToSet(b) : c.cmd = "totpTick"}, b)

\* C28: in every interleaving of navigation keys and timer fires at most one
\* tick of the one-time code is outstanding; leaving the detail view and
\* entering it again before the pending tick fires does not leave two tick
\* chains running.
C28_OneTick == Ticks(inflight) <= 1

\* a tick has fired in the detail view and armed its successor while a
\* second tick was outstanding: two chains run
C28_TwoChains ==
    /\ Running /\ m.view = "secretDetail" /\ m.secretDetail.hasTOTP
    /\ last.msg = totpTickMsg /\ last.cmds = <<totpTickCmd>>
    /\ Ticks(inflight) = 2

\* the pending tick of a view that was left fires in the list and ends its
\* chain
C28_ChainEnds ==
    /\ Running /\ m.view = "secretList" /\ last.msg = totpTickMsg
    /\ last.cmds = <<>> /\ Ticks(inflight) = 0

----------------------------------------------------------------------------
(* What arms a tick, and what a tick does *)

\* the seed of the record the detail view displays
ShownSeed(r) == TOTPSecret(r.secretDetail.secret)

\* clock readings, the Get call succeeding or failing
BeatEnvs == {e \in GetFailEnvs : e.part = 0}

\* the entry t into the detail view armed one tick if the record it displays
\* has a seed and none otherwise; it displays the record of the identifier
\* id when the store hands it out
EntryArms(w, env, id, t) ==
    /\ t.s.view = "secretDetail"
    /\ t.cmds = IF ShownSeed(t.s) # NoText THEN <<totpTickCmd>> ELSE <<>>
    /\ (~Fails(env, "get") /\ HasId(w.secrets, id))
          => t.s.secretDetail.secret = colGet(w.secrets, id)

\* the tick t regenerated code and countdown of r at the time of env and
\* armed one successor
Regenerated(r, w, env, t) ==
    /\ t.cmds = <<totpTickCmd>> /\ t.w = w
    /\ t.s = [r EXCEPT !.secretDetail.totpCode = totp_Generate(ShownSeed(r), env.now).code,
                       !.secretDetail.totpRemaining =
                           totp_Generate(ShownSeed(r), env.now).remaining]

\* the turn t changed nothing and started nothing
Idle(r, w, t) == t.s = r /\ t.w = w /\ t.cmds = <<>>

ArmsTick(cmds) == \E i \in 1..Len(cmds) : cmds[i] = totpTickCmd

\* the keys of every key map, and a rune
BeatKeys == SpecialKeys \cup {"a", "d", "e", "j", "k", "n", "s", "x", "y", "c", " ", "/"}

C29_NoSeed ==
    /\ Running /\ m.view = "secretDetail" /\ m.secretDetail.secret.id # NoId
    /\ ShownSeed(m) = NoText /\ last.msg = totpTickMsg /\ last.cmds = <<>>

\* the entry of a record without a seed failed at Get: the view still shows
\* the record with the seed, and a tick was armed for it
C29_StaleEntry ==
    /\ Running /\ m.view = "secretDetail" /\ ShownSeed(m) # NoText
    /\ m.secretDetail.secretID # m.secretDetail.secret.id
    /\ last.msg.type = "navigate" /\ last.cmds = <<totpTickCmd>>

----------------------------------------------------------------------------
(* Two copies, the second before the clear timer of the first has fired *)

\* a copy made while a clear timer is outstanding leaves that timer armed and
\* arms its own
SecondArmed ==
    (clearq >= 1 /\ clip'.copies = clip.copies + 1) => clearq' = clearq + 1

\* a timer firing while another is outstanding empties the clipboard,
\* whatever it holds, and leaves the other armed
EarlyClear ==
    (clearq >= 2 /\ clip'.clears = clip.clears + 1)
       => clipboard' = NoText /\ clearq' = clearq - 1

\* C30: a copy made before the clear timer of an earlier copy has fired
\* leaves two timers outstanding, neither cancelled nor restarted; the first
\* to fire empties the clipboard, whatever value it holds, with the other
\* timer still armed, and the other timer fires later and empties the
\* clipboard again.
C30_TwoTimers ==
    /\ [][SecondArmed /\ EarlyClear]_vars
    /\ \A n \in 0..MaxCopies :
          (clearq = 2 /\ clip.clears = n) ~> (clip.clears >= n + 2 \/ ~Running)

\* the first timer has emptied the clipboard after the second value was
\* written to it, and the second timer is still armed
C30_Witness ==
    /\ Running /\ clip.copies = 2 /\ clip.clears = 1 /\ clearq = 1
    /\ inflight = EmptyBag /\ clipboard = NoText
    /\ last.msg = clipboardClearedMsg
    /\ m.view = "secretDetail" /\ m.secretDetail.clipboardMsg = <<>>

\* both timers have fired
C30_BothFired ==
    /\ Running /\ clip.copies = 2 /\ clip.clears = 2 /\ clearq = 0
    /\ clipboard = NoText /\ last.msg = clipboardClearedMsg

\* two timers are armed and the clipboard holds the second value
C30_TwoArmed ==
    /\ Running /\ clip.copies = 2 /\ clearq = 2 /\ inflight = EmptyBag
    /\ clipboard # NoText /\ last.msg.type = "clipboardCopied"

----------------------------------------------------------------------------
(* The selected tag of a list whose tag set shrinks *)

\* the selected tag index of the list model l, whose tag filter is byTag,
\* is an index into its tag set
TagIndexValid(l, byTag) ==
    (l.filter = byTag /\ Len(l.tags) > 0) => (0 <= l.tagIndex /\ l.tagIndex < Len(l.tags))

\* C31: whenever a list is in the by-tag filter state with a non-empty tag
\* set, its selected tag index is an index into that tag set, after any
\* sequence of operations, deleting or editing the last record that carried
\* the selected tag included.
C31_TagIndex ==
    /\ TagIndexValid(m.secretList, filterByTag)
    /\ TagIndexValid(m.taskList, taskFilterByTag)

\* the task list deleted the last task of the selected tag: the tag set
\* shrank under the index, and the view panicked on the filter label
C31_Witness ==
    /\ m.view = "taskList" /\ m.taskList.filter = taskFilterByTag
    /\ Len(m.taskList.tags) > 0 /\ m.taskList.tagIndex >= Len(m.taskList.tags)
    /\ m.taskList.tags = collectTags(world.tasks) /\ world.panic

\* the secret list deleted the last secret of the selected tag: the reload
\* read the tag set out of range and the program ended inside Update
C31_SecretCrash ==
    /\ m.view = "secretList" /\ m.secretList.filter = filterByTag /\ world.panic
    /\ Len(collectTags(world.secrets)) > 0
    /\ m.secretList.tagIndex >= Len(collectTags(world.secrets))

----------------------------------------------------------------------------
(* The password view and the vault handle *)

\* outside the password view the root holds a handle, and the sub-model of
\* the active view (the menu has none) holds the same
Handled(r) ==
    r.view # "password"
       => /\ r.vault # NilVault
          /\ r.view # "menu" => r[r.view].vault = r.vault

\* the password view is left by a vaultOpened message alone, and not entered
\* again
LeftOnce ==
    /\ (m.view = "password" /\ m'.view # "password") => last'.msg.type = "vaultOpened"
    /\ m.view # "password" => m'.view # "password"

\* C32: the active view is the password view from the start until the first
\* vaultOpened message is processed and never afterwards; whenever another
\* view is active the root's vault handle is set and the sub-model of the
\* active view holds the same handle.
C32_Unlock ==
    /\ [](m.vault = NilVault <=> m.view = "password")
    /\ [][LeftOnce]_vars
    /\ []Handled(m)

\* the task detail view is active and holds the handle of the root
C32_Witness ==
    /\ Running /\ m.view = "taskDetail" /\ m.vault # NilVault
    /\ m.taskDetail.vault = m.vault /\ m.password.password # NoText

\* the vault was opened and the menu is shown
C32_Opened ==
    /\ Running /\ m.view = "menu" /\ m.vault # NilVault /\ last.msg.type = "vaultOpened"

----------------------------------------------------------------------------
(* A form in create mode whose save key is pressed twice *)

TwiceKeys ==
    [v \in Views |->
       CASE v = "password" -> {"a", "enter"}
         [] v = "menu" -> {"j", "enter"}
         [] v = "secretList" -> {"n"}
         [] v = "secretForm" -> {"a", "tab", "ctrl+s"}
         [] v = "taskList" -> {"n"}
         [] v = "taskForm" -> {"a", "tab", "ctrl+s"}
         [] OTHER -> {}]

Press == KeyPress(TwiceKeys, SteadyEnvs) /\ Filled(m'.secretForm.inputs) <= MaxFilled

Convey == Deliver(SteadyEnvs)

Unhook == OpenVault(SteadyEnvs)

NextTwice == Press \/ Convey \/ Unhook

SpecTwice == InitOn({StoreNoTags}, {FALSE}) /\ [][NextTwice]_vars

\* the save key of a form in create mode has just added a record, and the
\* navigation it asked for is still to be processed
SavedIn(v, lst) ==
    /\ Running /\ m.view = v
    /\ last.msg = KeyMsg("ctrl+s") /\ NavigatesTo(last.cmds, lst)
    /\ BagToSet(inflight) = {MsgCmd(navigateMsg(lst, NoData))}

\* the turn t added no record to the store of w
NothingAdded(w, t) == t.w.secrets = w.secrets /\ t.w.tasks = w.tasks

\* C33: one visit to a form in create mode adds at most one record: once a
\* save has added one, the save key pressed again before the navigation of
\* the first save is processed adds none.
C33_OneRecord ==
    \A env \in SteadyEnvs :
       /\ (SavedIn("secretForm", "secretList") /\ m.secretForm.mode = "create")
             => NothingAdded(world, Turn(m, KeyMsg("ctrl+s"), world, env))
       /\ (SavedIn("taskForm", "taskList") /\ m.taskForm.editing = NoTask)
             => NothingAdded(world, Turn(m, KeyMsg("ctrl+s"), world, env))

\* the secret form has added a secret and still is the active view, its
\* inputs as they were saved
C33_Witness ==
    /\ SavedIn("secretForm", "secretList") /\ m.secretForm.mode = "create"
    /\ Len(world.secrets) = 2 /\ world.secrets[2].id = FirstFreeId
    /\ world.secrets[2].name = m.secretForm.inputs[1].value

\* the same in the task form
C33_TaskSaved ==
    /\ SavedIn("taskForm", "taskList") /\ m.taskForm.editing = NoTask
    /\ Len(world.tasks) = 2 /\ world.tasks[2].id = FirstFreeId
    /\ world.tasks[2].title = m.taskForm.title

----------------------------------------------------------------------------
(* Timer messages: the tick of the one-time code and the cleared clipboard *)

TimerKeys ==
    [v \in Views |->
       CASE v = "password" -> {"a", "enter"}
         [] v = "menu" -> {"enter"}
         [] v = "secretList" -> {"enter"}
         [] v = "secretDetail" -> {"j", "enter", "esc"}
         [] OTHER -> {}]

\* the last row of the detail view the cursor is taken to
MaxRow == 3

Handle == Hasty(TimerKeys, SteadyEnvs) /\ m'.secretDetail.cursor <= MaxRow

\* the message of a finished command reaches the program
Forward ==
    /\ Running
    /\ \E c \in BagToSet(inflight), env \in SteadyEnvs :
          /\ c.cmd = "msg"
          /\ StartedWithin(MaxOpens, Turn(m, c.msg, world, env), c.msg,
                           inflight (-) SetToBag({c}), clearq, clip)
    /\ UNCHANGED <<vaultPw, handles, clipboard, trail>>

\* the clipboard write of a copy returns, a tick still running
Paste ==
    /\ Running
    /\ \E c \in BagToSet(inflight), env \in SteadyEnvs, ok \in BOOLEAN :
          /\ c.cmd = "clipWrite"
          /\ clipboard' = IF ok THEN c.val ELSE clipboard
          /\ StartedWithin(MaxOpens,
                           Turn(m, IF ok THEN clipboardCopiedMsg(c.field)
                                   ELSE errMsg("clipboard"), world, env),
                           IF ok THEN clipboardCopiedMsg(c.field) ELSE errMsg("clipboard"),
                           inflight (-) SetToBag({c}), clearq, clip)
    /\ UNCHANGED <<vaultPw, handles, trail>>

\* a clear timer fires, a tick still running
Expire ==
    /\ Running
    /\ clearq > 0
    /\ clipboard' = NoText
    /\ \E env \in SteadyEnvs :
          StartedWithin(MaxOpens, Turn(m, clipboardClearedMsg, world, env),
                        clipboardClearedMsg, inflight, clearq - 1,
                        [clip EXCEPT !.clears = @ + 1])
    /\ UNCHANGED <<vaultPw, handles, trail>>

Unclasp == OpenVault(SteadyEnvs)

NextTimers == Handle \/ Forward \/ Chime \/ Paste \/ Expire \/ Unclasp

SpecTimers == InitOn({StoreSensitive}, {FALSE}) /\ [][NextTimers]_vars

TimerMsgs == {totpTickMsg, clipboardClearedMsg}

\* the turn t of a timer message over r and w kept the view, the root error
\* and the store, and changed nothing of r but the code, the countdown and
\* the clipboard line of the secret detail view
FrameKept(r, w, t) ==
    /\ t.s.view = r.view /\ t.s.err = r.err /\ t.w = w
    /\ t.s = [r EXCEPT !.secretDetail.totpCode = t.s.secretDetail.totpCode,
                       !.secretDetail.totpRemaining = t.s.secretDetail.totpRemaining,
                       !.secretDetail.clipboardMsg = t.s.secretDetail.clipboardMsg]

\* C34: processing a timer message (the tick of the one-time code or the
\* cleared-clipboard notification) in any state keeps the active view, calls
\* the store not at all (the turn is the same whichever store call would
\* fail), keeps the root error, and changes nothing but the code and
\* countdown of the secret detail view or its clipboard line.
C34_TimerFrame ==
    Running =>
      \A msg \in TimerMsgs, env \in Envs :
         /\ FrameKept(m, world, Turn(m, msg, world, env))
         /\ Turn(m, msg, world, env) = Turn(m, msg, world, [env EXCEPT !.fail = "none"])

\* the clear timer fired in the detail view of a secret with a seed, and
\* took the clipboard line away, the field cursor off the first row
C34_Witness ==
    /\ Running /\ m.view = "secretDetail" /\ m.secretDetail.hasTOTP
    /\ last.msg = clipboardClearedMsg /\ m.secretDetail.clipboardMsg = <<>>
    /\ m.secretDetail.cursor > 0 /\ clip.clears > 0

\* a tick fired in the detail view while the clipboard line was shown
C34_TickOverLine ==
    /\ Running /\ m.view = "secretDetail" /\ last.msg = totpTickMsg
    /\ m.secretDetail.clipboardMsg # <<>> /\ m.secretDetail.cursor > 0
    /\ m.secretDetail.totpCode # NoText

----------------------------------------------------------------------------
(* Searching the secret list *)

SearchKeys ==
    [v \in Views |->
       CASE v = "password" -> {"a", "enter"}
         [] v = "menu" -> {"enter"}
         [] v = "secretList" -> {"/", "g", "b", "backspace", "tab", "enter", "esc"}
         [] v = "secretDetail" -> {"esc"}
         [] OTHER -> {}]

\* a key of a user who waits for the view to arrive
Seek == inflight = EmptyBag /\ Stroke(SearchKeys, SteadyEnvs)

Return == Deliver(SteadyEnvs)

Unlid == OpenVault(SteadyEnvs)

NextSearch == Seek \/ Return \/ Unlid

SpecSearch == InitOn({StoreTwoTags}, {FALSE}) /\ [][NextSearch]_vars

\* a reload of the secret list that the store answers and that does not panic
Restocks(sl, w, env) ==
    sl.vault # NilVault /\ ~Fails(env, "list") /\ ~secretListModel_loadPanics(sl, w, env)

\* C35: after every successful reload of a list controller its tag set is
\* the sorted set of the distinct tags of all records in the store, whatever
\* the type, status or tag filter and whatever the search query.
C35_TagSet ==
    Running /\ m.vault # NilVault =>
      \A env \in SteadyEnvs :
         /\ Restocks(m.secretList, world, env) =>
               secretListModel_loadSecrets(m.secretList, world, env).tags
                  = collectTags(world.secrets)
         /\ ~taskListModel_loadPanics(m.taskList) =>
               taskListModel_loadTasks(m.taskList, world, env).tags
                  = collectTags(world.tasks)

\* a reload in search mode left the list with the tags of the matching
\* records only
C35_Witness ==
    /\ Running /\ m.view = "secretList" /\ m.secretList.err = ""
    /\ m.secretList.searching /\ m.secretList.search # NoText
    /\ m.secretList.secrets = SecretStore_Search(world.secrets, m.secretList.search)
    /\ m.secretList.tags = collectTags(m.secretList.secrets)
    /\ m.secretList.tags # collectTags(world.secrets)

\* outside an active search the reload of either list gives the tags of the
\* whole store
C35_Unsearched ==
    Running /\ m.vault # NilVault =>
      \A env \in SteadyEnvs :
         /\ Restocks(m.secretList, world, env)
              /\ ~(m.secretList.searching /\ m.secretList.search # NoText) =>
               secretListModel_loadSecrets(m.secretList, world, env).tags
                  = collectTags(world.secrets)
         /\ ~taskListModel_loadPanics(m.taskList) =>
               taskListModel_loadTasks(m.taskList, world, env).tags
                  = collectTags(world.tasks)

\* the keys the list itself sees in search mode (ctrl+c ends the program in
\* the root model)
SearchModeKeys == BeatKeys \ {"ctrl+c"}

\* held is what a search of query over secs gives, narrowed by the filter sl
\* keeps; with no filter it is the whole result
FromSearch(held, secs, query, sl) ==
    /\ \A i \in 1..Len(held) : matches(held[i], ToLower(query))
    /\ \A i \in 1..Len(held) : \E j \in 1..Len(secs) : secs[j] = held[i]
    /\ sl.filter = filterAll => held = SecretStore_Search(secs, query)

InSearch(r) == r.view = "secretList" /\ r.secretList.searching

\* what the turn t of key k did to the list sl in search mode over the store w
SearchStep(sl, k, w, t) ==
    /\ ~t.w.panic /\ t.w = w
    /\ t.cmds = <<>> /\ t.s.view = "secretList"
    /\ ~t.s.secretList.confirmDelete
    /\ t.s.secretList.filter = sl.filter /\ t.s.secretList.tagIndex = sl.tagIndex
    /\ t.s.secretList.cursor <= sl.cursor
    /\ IF k \in KeyBack
       THEN /\ t.s.secretList.search = NoText /\ ~t.s.secretList.searching
            /\ FromSearch(t.s.secretList.secrets, w.secrets, NoText, sl)
       ELSE IF k \in KeyEnter
       THEN /\ ~t.s.secretList.searching
            /\ t.s.secretList.search = sl.search
            /\ t.s.secretList.secrets = sl.secrets
       ELSE /\ t.s.secretList.searching
            /\ t.s.secretList.search = textinput_Update(sl.search, k)
            /\ FromSearch(t.s.secretList.secrets, w.secrets,
                          textinput_Update(sl.search, k), sl)

\* C36: in search mode of the secret list every key but Esc and Enter edits
\* the query and reloads the held slice from a store search of the new
\* query; Esc empties the query, leaves search mode and reloads the
\* unsearched list; Enter leaves search mode with the query and the held
\* records as they are; no key navigates, arms a delete confirmation or
\* advances the filter.
C36_SearchKeys ==
    Running /\ InSearch(m) =>
      \A k \in SearchModeKeys, env \in SteadyEnvs :
         SearchStep(m.secretList, k, world, Turn(m, KeyMsg(k), world, env))

\* a key typed in search mode ended the program: the tag filter stood on the
\* second tag and the search left one tag
C36_Witness ==
    /\ world.panic /\ InSearch(m)
    /\ m.secretList.filter = filterByTag /\ m.secretList.tagIndex > 0

\* the statement holds for every turn that does not end the program
C36_UnlessPanic ==
    Running /\ InSearch(m) =>
      \A k \in SearchModeKeys, env \in SteadyEnvs :
         \/ Turn(m, KeyMsg(k), world, env).w.panic
         \/ SearchStep(m.secretList, k, world, Turn(m, KeyMsg(k), world, env))

\* a query was typed in search mode and the list holds what the search gave
C36_Typed ==
    /\ Running /\ InSearch(m) /\ m.secretList.search # NoText
    /\ m.secretList.filter = filterAll
    /\ m.secretList.secrets = SecretStore_Search(world.secrets, m.secretList.search)
    /\ Len(m.secretList.secrets) < Len(world.secrets)

AllMatch(held, query) == \A i \in 1..Len(held) : matches(held[i], ToLower(query))

\* C37: whenever the secret list holds a non-empty search query, the one it
\* displays, every record it holds matches that query, also after search
\* mode was left with Enter and the list was reloaded by a filter advance, a
\* delete or a return from another view.
C37_HeldMatch ==
    Running /\ m.secretList.search # NoText =>
       AllMatch(m.secretList.secrets, m.secretList.search)

\* search mode was left with the query kept, a reload followed, and the list
\* shows the query over records that do not match it
C37_Witness ==
    /\ Running /\ m.view = "secretList" /\ m.secretList.err = ""
    /\ ~m.secretList.searching /\ m.secretList.search # NoText
    /\ m.secretList.filter # filterAll
    /\ ~AllMatch(m.secretList.secrets, m.secretList.search)

\* the list came back from the detail view with the query kept and holds
\* the whole store
C37_Returned ==
    /\ Running /\ m.view = "secretList" /\ last.msg = navigateMsg("secretList", NoData)
    /\ ~m.secretList.searching /\ m.secretList.search # NoText
    /\ m.secretList.secrets = world.secrets
    /\ ~AllMatch(m.secretList.secrets, m.secretList.search)

----------------------------------------------------------------------------
(* Focus and type selection in the secret form *)

FocusKeys ==
    [v \in Views |->
       CASE v = "password" -> {"a", "enter"}
         [] v = "menu" -> {"enter"}
         [] v = "secretList" -> {"n", "enter"}
         [] v = "secretDetail" -> {"e"}
         [] v = "secretForm" -> {"tab", "shift+tab", "left", "right", "a", "esc"}
         [] OTHER -> {}]

\* a key of a user who waits for the view to arrive; in the form it fills no
\* further field
Shift ==
    /\ inflight = EmptyBag
    /\ Stroke(FocusKeys, SteadyEnvs)
    /\ \/ Filled(m'.secretForm.inputs) <= MaxFilled
       \/ Filled(m'.secretForm.inputs) <= Filled(m.secretForm.inputs)

Waive ==
    /\ inflight = EmptyBag /\ m.secretForm.confirmDiscard
    /\ Stroke(AnswerKeys, SteadyEnvs)

Supply == Deliver({e \in GetFailEnvs : e.now = MaxClock})

Unhinge == OpenVault(SteadyEnvs)

NextFocus == Shift \/ Waive \/ Supply \/ Unhinge

SpecFocus == InitOn({StoreTwoTags}, {FALSE}) /\ [][NextFocus]_vars

\* the number of fields the form has for a type
FieldCount(type) == Len(buildFormInputs(type, NoSecret))

\* the lowest focus position of a mode: the type selector exists in create
\* mode only
LowestFocus(mode) == IF mode = "create" THEN -1 ELSE 0

FocusInRange(sf) ==
    /\ sf.focused >= LowestFocus(sf.mode)
    /\ sf.focused <= FieldCount(sf.secType) - 1

\* the focus of sf after Tab (by = 1) or Shift-Tab (by = -1): one step, and
\* none at the boundary
Stepped(sf, by) ==
    IF by = 1 THEN (IF sf.focused < FieldCount(sf.secType) - 1 THEN sf.focused + 1
                    ELSE sf.focused)
    ELSE (IF sf.focused > LowestFocus(sf.mode) THEN sf.focused - 1 ELSE sf.focused)

\* the form is the active view and takes keys for its fields
FormTakesKeys(r) == r.view = "secretForm" /\ ~r.secretForm.confirmDiscard

\* C38: in the secret form the focus position lies in [-1, n-1] in create
\* mode and in [0, n-1] in edit mode, n the number of fields of the current
\* type; the form starts at -1 in create mode and at 0 in edit mode; Tab
\* raises the position by one and Shift-Tab lowers it by one, each leaving
\* it alone at its boundary.
C38_Focus ==
    Running =>
      /\ FocusInRange(m.secretForm)
      /\ last.msg.type = "navigate" /\ m.view = "secretForm" =>
            m.secretForm.focused = LowestFocus(m.secretForm.mode)
      /\ FormTakesKeys(m) =>
            \A env \in Envs :
               /\ Turn(m, KeyMsg("tab"), world, env).s.secretForm.focused
                     = Stepped(m.secretForm, 1)
               /\ Turn(m, KeyMsg("shift+tab"), world, env).s.secretForm.focused
                     = Stepped(m.secretForm, -1)

\* the edit form was entered while the store could not read the record: it
\* kept the type selector position of an earlier visit to the create form
C38_Witness ==
    /\ Running /\ m.view = "secretForm" /\ m.secretForm.mode = "edit"
    /\ m.secretForm.err # "" /\ m.secretForm.focused = -1

\* the same statement for the visits to the form in which the store read
\* the record
C38_WhenLoaded ==
    Running /\ ~(m.secretForm.mode = "edit" /\ m.secretForm.err # "") =>
      /\ FocusInRange(m.secretForm)
      /\ last.msg.type = "navigate" /\ m.view = "secretForm" =>
            m.secretForm.focused = LowestFocus(m.secretForm.mode)
      /\ FormTakesKeys(m) =>
            \A env \in Envs :
               /\ Turn(m, KeyMsg("tab"), world, env).s.secretForm.focused
                     = Stepped(m.secretForm, 1)
               /\ Turn(m, KeyMsg("shift+tab"), world, env).s.secretForm.focused
                     = Stepped(m.secretForm, -1)

\* the focus stands on the last field of an edited password
C38_AtLast ==
    /\ Running /\ FormTakesKeys(m) /\ m.secretForm.mode = "edit"
    /\ m.secretForm.secType = "password" /\ m.secretForm.err = ""
    /\ m.secretForm.focused = FieldCount("password") - 1

\* the member of typeOptions that follows (by = 1) or precedes (by = -1) the
\* type t, cyclically
NeighbourType(t, by) ==
    LET i == CHOOSE j \in 1..Len(typeOptions) : typeOptions[j] = t
    IN typeOptions[((i - 1 + by + Len(typeOptions)) % Len(typeOptions)) + 1]

OnSelector(r) ==
    FormTakesKeys(r) /\ r.secretForm.mode = "create" /\ r.secretForm.focused = -1

\* the form s1 is the form s0 with the type moved by one: the fields of the
\* new type, the name kept, the fields of the type empty
TypeMoved(s0, s1, by) ==
    /\ s1.secType = NeighbourType(s0.secType, by)
    /\ typeOptions[s1.typeSel + 1] = s1.secType
    /\ Len(s1.inputs) = FieldCount(s1.secType)
    /\ \A i \in 1..Len(s1.inputs) :
          /\ s1.inputs[i].fieldKey = buildFormInputs(s1.secType, NoSecret)[i].fieldKey
          /\ s1.inputs[i].label = buildFormInputs(s1.secType, NoSecret)[i].label
          /\ s1.inputs[i].value = IF i = 1 THEN s0.inputs[1].value ELSE NoText
    /\ s1.focused = -1 /\ s1.mode = "create"

TypeKept(s0, s1) ==
    /\ s1.secType = s0.secType /\ s1.typeSel = s0.typeSel
    /\ Len(s1.inputs) = Len(s0.inputs)
    /\ \A i \in 1..Len(s1.inputs) :
          /\ s1.inputs[i].fieldKey = s0.inputs[i].fieldKey
          /\ s1.inputs[i].value = s0.inputs[i].value

\* what the turns tr of Right and tl of Left did to the form of r
TypeKeys(r, tr, tl) ==
    IF OnSelector(r)
    THEN /\ TypeMoved(r.secretForm, tr.s.secretForm, 1)
         /\ TypeMoved(r.secretForm, tl.s.secretForm, -1)
    ELSE /\ TypeKept(r.secretForm, tr.s.secretForm)
         /\ TypeKept(r.secretForm, tl.s.secretForm)

\* C39: in create mode with the type selector focused, Right and Left move
\* the type to the next and the previous member of (password, api-key,
\* ssh-key, note) cyclically and replace the fields by those of the new
\* type, the name keeping its value and every field of the type empty; in
\* edit mode, or while a field is focused, Left and Right change neither the
\* type nor the fields.
C39_TypeSelector ==
    Running /\ m.view = "secretForm" =>
      \A env \in Envs :
         TypeKeys(m, Turn(m, KeyMsg("right"), world, env),
                  Turn(m, KeyMsg("left"), world, env))

\* the selector is back in focus on the last type, a name and nothing else
\* filled in
C39_Witness ==
    /\ Running /\ OnSelector(m) /\ m.secretForm.secType = "note"
    /\ m.secretForm.inputs[1].value # NoText
    /\ last.msg = SomeKey

\* a field of the type was filled in and the selector is in focus again
C39_FieldFilled ==
    /\ Running /\ OnSelector(m)
    /\ \E i \in 2..Len(m.secretForm.inputs) : m.secretForm.inputs[i].value # NoText

\* a field of an edited record is in focus
C39_Editing ==
    /\ Running /\ FormTakesKeys(m) /\ m.secretForm.mode = "edit"
    /\ m.secretForm.err = "" /\ m.secretForm.focused > 0

----------------------------------------------------------------------------
(* Focus in the task form *)

CycleKeys ==
    [v \in Views |->
       CASE v = "password" -> {"a", "enter"}
         [] v = "menu" -> {"j", "enter"}
         [] v = "taskList" -> {"n", "j", "enter"}
         [] v = "taskDetail" -> {"e", "esc"}
         [] v = "taskForm" -> {"tab", "shift+tab", " ", "esc"}
         [] OTHER -> {}]

\* the space bar is pressed on the priority only
Rotate ==
    /\ Stroke(CycleKeys, SteadyEnvs)
    /\ m'.taskForm.title = m.taskForm.title \/ m.view # "taskForm"
    /\ m'.taskForm.due = m.taskForm.due \/ m.view # "taskForm"
    /\ m'.taskForm.tags = m.taskForm.tags \/ m.view # "taskForm"

Pass == Deliver(SteadyEnvs)

Unstop == OpenVault(SteadyEnvs)

NextCycle == Rotate \/ Pass \/ Unstop

SpecCycle == InitOn({StoreOneTag}, {FALSE}) /\ [][NextCycle]_vars

\* the order in which the claim lists the positions of the form
CycleOrder == <<fieldTitle, fieldPriority, fieldDue, fieldTags>>

PlaceOf(f) == CHOOSE i \in 1..Len(CycleOrder) : CycleOrder[i] = f

FollowerOf(f) == CycleOrder[(PlaceOf(f) % Len(CycleOrder)) + 1]

LeaderOf(f) == CycleOrder[((PlaceOf(f) + Len(CycleOrder) - 2) % Len(CycleOrder)) + 1]

\* the root model after the keys of ks, one turn each
RECURSIVE KeysRun(_, _, _, _)
KeysRun(r, ks, w, env) ==
    IF ks = <<>> THEN r
    ELSE KeysRun(Turn(r, KeyMsg(Head(ks)), w, env).s, Tail(ks), w, env)

FocusAfter(r, ks, w, env) == KeysRun(r, ks, w, env).taskForm.focused

\* C40: in the task form Tab moves the focus along title, priority, due,
\* tags and back to title, Shift-Tab along the reverse cycle; Tab then
\* Shift-Tab, Shift-Tab then Tab, four Tabs and four Shift-Tabs bring the
\* focus back to where it was; one position of the four is focused at all
\* times.
C40_FocusCycle ==
    Running /\ m.view = "taskForm" =>
      /\ \E i \in 1..Len(CycleOrder) : m.taskForm.focused = CycleOrder[i]
      /\ \A env \in SteadyEnvs :
            /\ FocusAfter(m, <<"tab">>, world, env) = FollowerOf(m.taskForm.focused)
            /\ FocusAfter(m, <<"shift+tab">>, world, env) = LeaderOf(m.taskForm.focused)
            /\ FocusAfter(m, <<"tab", "shift+tab">>, world, env) = m.taskForm.focused
            /\ FocusAfter(m, <<"shift+tab", "tab">>, world, env) = m.taskForm.focused
            /\ FocusAfter(m, <<"tab", "tab", "tab", "tab">>, world, env) = m.taskForm.focused
            /\ FocusAfter(m, <<"shift+tab", "shift+tab", "shift+tab", "shift+tab">>,
                          world, env) = m.taskForm.focused

\* the focus stands on the tags of a task being edited, its title untouched
C40_Witness ==
    /\ Running /\ m.view = "taskForm" /\ m.taskForm.editing # NoTask
    /\ m.taskForm.focused = fieldTags /\ m.taskForm.title = m.taskForm.editing.title

\* the focus stands on the priority of a new task
C40_OnPriority ==
    /\ Running /\ m.view = "taskForm" /\ m.taskForm.editing = NoTask
    /\ m.taskForm.focused = fieldPriority /\ m.taskForm.priority # PriorityNone
====
